---- MODULE Spec2Model ----
(***************************************************************************)
(* Model of the campaign tracker (src/campaign-tracker-v2.py): the         *)
(* incremental synchronisation of source records into the destination      *)
(* sheets, the write-verify-retry pipeline, the local counter ledger and   *)
(* CSV backups, and the merge of the course and ad sheets.                 *)
(***************************************************************************)
EXTENDS Integers, Sequences, FiniteSets, TLC

\* ---------------------------------------------------------------- bounds
MaxRef == 2
MaxRuns == 2
MaxFaults == 3
\* rows of column A in the key resolver's unit specification
MaxKeyRows == 3
\* characters of a page, entries of the landing-page list (classifier unit)
MaxPageLen == 2
MaxLandingPages == 2
\* rows of a fetched batch (transformer unit)
MaxBatch == 2
\* data rows of the conversion sender's sheet, and runs of the sender
MaxSheetRows == 2
MaxSendRuns == 2
\* consecutive counter updates (ledger unit)
MaxUpdates == 2

\* ------------------------------------------------------ program constants
\* retries: int = 3 (get_existing_sheet_ids, write_to_google_sheets_robust)
Retries == 3
\* the fixed 20-column schema of a formatted row
NumCols == 20

\* mutant: the ad sheet of a status is processed before its course sheet
KindsAdFirst == <<"ad_success", "course_success", "ad_failed", "course_failed">>

\* main(): for status in ['success', 'failed']: course_<status>, ad_<status>
Kinds == <<"course_success", "ad_success", "course_failed", "ad_failed">>
KindSet == {Kinds[i] : i \in 1..Len(Kinds)}
MergeTypes == <<"success", "failed">>
MergeTables == {"merge_success", "merge_failed"}
Tables == KindSet \cup MergeTables

PathOf(kind) == IF kind \in {"course_success", "course_failed"} THEN "course" ELSE "ad"
StatusOf(kind) == IF kind \in {"course_success", "ad_success"} THEN "success" ELSE "failed"

\* config_campaign.py
Campaigns == {"anand-utsav-2025"}
merge_sheet == {"anand-utsav-2025"}
\* the campaigns and environments parse_arguments accepts
sheet_ids ==
    {"whd-mar2025", "mc-jan2025", "yog-feb2025", "tealbox-ombw-mar2025", "ombw-voucher",
     "anand-utsav-2025"}
db_config == {"live", "stage"}
\* the campaigns with an exclude filter
exclude_filters == {"tealbox-ombw-mar2025"}
status_types(status_type) == IF status_type = "success" THEN 5 ELSE 1

\* the registrations the source receives, in id order: one matching both
\* extraction paths, one matching only the landing-page path (with the second
\* success code), a failed one matching only the course path, and so on
Profiles ==
    << [course |-> TRUE,  ad |-> TRUE,  participant_status |-> 5,  voucher |-> FALSE],
       [course |-> FALSE, ad |-> TRUE,  participant_status |-> 19, voucher |-> FALSE],
       [course |-> TRUE,  ad |-> FALSE, participant_status |-> 1,  voucher |-> FALSE] >>

ProfileOf(id) == Profiles[((id - 1) % Len(Profiles)) + 1]

HeaderRow == [id |-> 0, src |-> "header"]
EmptyRow == [id |-> 0, src |-> "empty"]

VARIABLES
    campaign,       \* sys.argv[1]
    source,         \* the source table: a sequence of records, id = position
    sheet,          \* the spreadsheet: table name -> rows (row 1 first)
    backup,         \* the CSV backup files: kind -> rows
    ledger,         \* the counter file campaign_counters.json
    runs,           \* invocations started so far
    faults,         \* injected remote / local faults so far
    pc,             \* position of the running invocation
    ki,             \* index into Kinds of the table being processed
    counters,       \* main()'s in-memory copy of the ledger
    existing_ids,   \* result of get_existing_sheet_ids
    readAttempt,    \* attempts made by get_existing_sheet_ids
    readLog,        \* outcome of each attempt of the current key read
    count_verification_passed,
    query,          \* the predicate built by build_*_query
    data,           \* rows handed to the write pipeline
    target,         \* table the write pipeline writes to
    caller,         \* "append" (append_to_sheet) or "merge" (merge_sheets)
    attempt,        \* loop variable of write_to_google_sheets_robust
    writeLog,       \* outcome of each attempt of the current write
    sheets_success, \* result of write_to_google_sheets_robust
    updated,        \* result of append_to_sheet
    ledger0,        \* the ledger file as it was when append_to_sheet began
    absent,         \* the merge sheets that do not exist in the spreadsheet yet
    mi,             \* index into MergeTypes of the merge in progress
    existing_headers, \* merge_sheets: the merge sheet's header row, <<>> if none
    total_new_merges, \* merge_sheets: rows merged so far
    exit_code,      \* <<exit status>> of the last invocation that ended, <<>> before any
    upc,            \* position of the function under unit verification
    read_values,    \* get_existing_sheet_ids: result.get('values', []) of column A
    key_ids,        \* get_existing_sheet_ids: the returned set
    ver_outcome,    \* verify_write_success on the same column: <<>> or <<its outcome>>
    first_page,     \* determine_reg_type: argument
    last_page,      \* determine_reg_type: argument
    landing_pages_list, \* determine_reg_type: argument
    reg_type,       \* determine_reg_type: the returned value
    fetched,        \* process_query_results: rows = cursor.fetchall()
    tr_status,      \* process_query_results: status_type
    row_index,      \* process_query_results: rows handled so far
    formatted,      \* process_query_results: the list "data" being built
    procs,          \* concurrent invocations: invocation -> its position and locals
    overlapped,     \* history: two invocations have been running at the same time
    upd_args,       \* update_counters_after_processing: the arguments
    upd_result,     \* update_counters_after_processing: the returned counters
    flt_args,       \* build_*_query: the arguments and a source record
    flt_queries,    \* build_*_query: the predicates of the two extraction paths
    led_log,        \* history: the calls of append_to_sheet's counter update so far
    fb_config,      \* conversion sender: the sheet_config of the sheet processed
    fb_sheet,       \* conversion sender: the data rows of the sheet (row 2 first)
    rows_to_process, \* process_sheet: result of filter_rows_to_process
    fb_i,           \* process_sheet: loop index into rows_to_process
    new_attempts,   \* process_sheet: <<new_attempts>>, <<>> while unbound
    updates,        \* process_sheet: the list of updates
    fb_log,         \* history: row -> sends so far and whether one succeeded
    fb_run          \* history: sender runs so far, the rows sent in the current run

envVars == <<campaign, source, sheet, backup, ledger, runs, faults, absent>>
mainVars == <<ki, counters, existing_ids, readAttempt, readLog,
              count_verification_passed, query>>
writeVars == <<data, target, caller, attempt, writeLog, sheets_success, updated, ledger0>>
mergeVars == <<mi, existing_headers, total_new_merges>>
programVars == <<envVars, mainVars, writeVars, mergeVars, pc, exit_code>>
keyVars == <<read_values, key_ids, ver_outcome>>
classVars == <<first_page, last_page, landing_pages_list, reg_type>>
transVars == <<fetched, tr_status, row_index, formatted>>
concVars == <<procs, overlapped>>
updVars == <<upd_args, upd_result>>
fltVars == <<flt_args, flt_queries>>
sndVars == <<fb_config, fb_sheet, rows_to_process, fb_i, new_attempts, updates, fb_log, fb_run>>
unitVars == <<upc, keyVars, classVars, transVars, concVars, updVars, fltVars, led_log, sndVars>>
vars == <<programVars, unitVars>>

\* ------------------------------------------------------------- helpers
RECURSIVE SortById(_)
\* ORDER BY submitted_on ASC (ids are assigned in submission order)
SortById(S) ==
    IF S = {} THEN <<>>
    ELSE LET m == CHOOSE r \in S : \A q \in S : r.id <= q.id
         IN <<m>> \o SortById(S \ {m})

IsPrefix(s, t) == Len(s) <= Len(t) /\ SubSeq(t, 1, Len(s)) = s

\* a cell of column A that str(...).replace('.', '').isdigit() accepts
IsNumericCell(row) == row.src \notin {"header", "empty"}

\* ------------------------------------------------------ counter ledger
\* load_local_counters: the fresh counters returned when the file is missing
\* or cannot be read
FreshCounters ==
    [count |-> [k \in KindSet |-> 0], total_processed |-> 0,
     last_updated |-> "", campaign |-> "", environment |-> ""]

\* mutant: a failed load hands back the file's content all the same
load_local_counters_lenient(file, readable) == file

\* mutant: a failed load zeroes the counts and keeps the file's total
load_local_counters_keep_total(file, readable) ==
    IF readable THEN file
    ELSE [FreshCounters EXCEPT !.total_processed = file.total_processed]

\* load_local_counters: the file's content, or fresh counters when the file is
\* missing or reading it raises
load_local_counters(file, readable) == IF readable THEN file ELSE FreshCounters

\* verify_sheet_counts_against_local
verify_sheet_counts_against_local(ids, cnt, sheet_type) ==
    LET sheet_count == Cardinality(ids)
        local_count == cnt.count[sheet_type]
        diff == IF sheet_count >= local_count THEN sheet_count - local_count
                ELSE local_count - sheet_count
    IN  ~(diff > 0)

\* mutant: the total is left as it was
update_counters_after_processing_no_total(cnt, sheet_type, new_count, camp, env, now) ==
    [cnt EXCEPT !.count[sheet_type] = cnt.count[sheet_type] + new_count,
                !.last_updated = now,
                !.campaign = camp,
                !.environment = env]

\* mutant: the stamp of the first writer is kept
update_counters_after_processing_first_stamp(cnt, sheet_type, new_count, camp, env, now) ==
    [cnt EXCEPT !.count[sheet_type] = cnt.count[sheet_type] + new_count,
                !.total_processed = cnt.total_processed + new_count,
                !.last_updated = now,
                !.campaign = IF cnt.campaign = "" THEN camp ELSE cnt.campaign,
                !.environment = IF cnt.environment = "" THEN env ELSE cnt.environment]

\* update_counters_after_processing: the dictionary it returns; the counters
\* main() passes hold every count and the total
update_counters_after_processing(cnt, sheet_type, new_count, camp, env, now) ==
    [cnt EXCEPT !.count[sheet_type] = cnt.count[sheet_type] + new_count,
                !.total_processed = cnt.total_processed + new_count,
                !.last_updated = now,
                !.campaign = camp,
                !.environment = env]

\* ---------------------------------------------------------- key resolver
\* mutant: the row after the header is skipped as well
ParseExistingIdsSkipTwo(values) ==
    LET rest == IF Len(values) > 1 THEN Tail(Tail(values)) ELSE <<>>
    IN  {rest[i].id : i \in {j \in 1..Len(rest) : IsNumericCell(rest[j])}}

\* get_existing_sheet_ids, the parse of one successful read of column A
ParseExistingIds(values) ==
    LET rest == IF Len(values) > 0 THEN Tail(values) ELSE <<>>
    IN  {rest[i].id : i \in {j \in 1..Len(rest) : IsNumericCell(rest[j])}}

\* verify_write_success, the ids found by the re-read of column A
ParseCurrentIds(values) ==
    IF Len(values) > 1
    THEN {values[i].id : i \in {j \in 2..Len(values) : IsNumericCell(values[j])}}
    ELSE {}

\* ---------------------------------------------------------- filter builder
\* mutant: the course query built without the existing-ids clause
build_course_query_no_exclusion(camp, status_type, ids) ==
    [path |-> "course",
     not_in |-> {},
     has_not_in |-> FALSE,
     statuses |-> IF status_type = "success" THEN {5, 19}
                  ELSE {status_types(status_type)},
     exclude |-> camp \in exclude_filters]

\* build_course_query: the WHERE clauses that depend on the arguments
build_course_query(camp, status_type, ids) ==
    [path |-> "course",
     not_in |-> IF ids # {} THEN ids ELSE {},
     has_not_in |-> ids # {},
     statuses |-> IF status_type = "success" THEN {5, 19}
                  ELSE {status_types(status_type)},
     exclude |-> camp \in exclude_filters]

\* mutant: the landing-page query built without the existing-ids clause
build_landing_page_query_no_exclusion(camp, status_type, ids) ==
    [path |-> "ad",
     not_in |-> {},
     has_not_in |-> FALSE,
     statuses |-> IF status_type = "success" THEN {5, 19}
                  ELSE {status_types(status_type)},
     exclude |-> FALSE]

\* build_landing_page_query: it has no exclude clause
build_landing_page_query(camp, status_type, ids) ==
    [path |-> "ad",
     not_in |-> IF ids # {} THEN ids ELSE {},
     has_not_in |-> ids # {},
     statuses |-> IF status_type = "success" THEN {5, 19}
                  ELSE {status_types(status_type)},
     exclude |-> FALSE]

\* the source's evaluation of the WHERE condition on one record
Satisfies(rec, q) ==
    /\ IF q.path = "course" THEN rec.course ELSE rec.ad
    /\ q.has_not_in => rec.id \notin q.not_in
    /\ rec.participant_status \in q.statuses
    /\ q.exclude => ~rec.voucher

SourceSet == {source[i] : i \in 1..Len(source)}

\* process_query_results: one formatted row per fetched row, in query order
process_query_results(src, q) ==
    LET rows == SortById({r \in src : Satisfies(r, q)})
    IN  [i \in 1..Len(rows) |-> [id |-> rows[i].id, src |-> q.path]]

\* ------------------------------------------------------------ remote store
\* mutant: the rows are written at A2 instead of being appended
RemoteAppendOverwrite(values, rows) ==
    IF Len(values) = 0 THEN <<EmptyRow>> \o rows ELSE <<values[1]>> \o rows

\* values().append(range="<sheet>!A2", insertDataOption='INSERT_ROWS')
RemoteAppend(values, rows) ==
    IF Len(values) = 0 THEN <<EmptyRow>> \o rows ELSE values \o rows

\* ------------------------------------------------------------------- Init
\* the spreadsheet, the source and the local files before the first invocation
EnvInit ==
    /\ campaign \in Campaigns
    /\ source = <<>>
    /\ sheet = [t \in Tables |-> IF t \in KindSet THEN <<HeaderRow>> ELSE <<>>]
    /\ backup = [k \in KindSet |-> <<>>]
    /\ ledger = FreshCounters
    /\ runs = 0
    /\ faults = 0
    /\ absent = MergeTables

\* the locals of main() and of merge_sheets before an invocation
MainInit ==
    /\ ki = 1
    /\ counters = FreshCounters
    /\ existing_ids = {}
    /\ readAttempt = 0
    /\ readLog = <<>>
    /\ count_verification_passed = TRUE
    /\ query = build_course_query(campaign, "success", {})
    /\ mi = 1
    /\ existing_headers = <<>>
    /\ total_new_merges = 0
    /\ exit_code = <<>>

\* the locals of append_to_sheet and write_to_google_sheets_robust before a call
WriteInit ==
    /\ data = <<>>
    /\ target = Kinds[1]
    /\ caller = "append"
    /\ attempt = 0
    /\ writeLog = <<>>
    /\ sheets_success = FALSE
    /\ updated = 0
    /\ ledger0 = FreshCounters

ProgramInit ==
    /\ EnvInit
    /\ MainInit
    /\ WriteInit
    /\ pc = "idle"

\* the variables of a function that is not under unit verification
KeysIdle ==
    /\ read_values = <<>>
    /\ key_ids = {}
    /\ ver_outcome = <<>>

ClassIdle ==
    /\ first_page = <<>>
    /\ last_page = <<>>
    /\ landing_pages_list = <<>>
    /\ reg_type = ""

TransIdle ==
    /\ fetched = <<>>
    /\ tr_status = ""
    /\ row_index = 0
    /\ formatted = <<>>

\* an invocation of the concurrent runs that has not started
ProcIdle ==
    [pc |-> "idle", existing_ids |-> {}, readLog |-> <<>>, data |-> <<>>,
     attempt |-> 0, writeLog |-> <<>>, sheets_success |-> FALSE]

ConcIdle ==
    /\ procs = <<>>
    /\ overlapped = FALSE

UpdIdle ==
    /\ upd_args = <<>>
    /\ upd_result = <<>>

FltIdle ==
    /\ flt_args = <<>>
    /\ flt_queries = <<>>

LedIdle == led_log = <<>>

\* the conversion sender is not running
SndIdle ==
    /\ fb_config = <<>>
    /\ fb_sheet = <<>>
    /\ rows_to_process = <<>>
    /\ fb_i = 0
    /\ new_attempts = <<>>
    /\ updates = <<>>
    /\ fb_log = <<>>
    /\ fb_run = <<>>

\* no function is under unit verification
UnitIdle ==
    /\ upc = "idle"
    /\ KeysIdle
    /\ ClassIdle
    /\ TransIdle
    /\ ConcIdle
    /\ UpdIdle
    /\ FltIdle
    /\ LedIdle
    /\ SndIdle

Init ==
    /\ ProgramInit
    /\ UnitIdle

FaultN(n) == faults + n <= MaxFaults /\ faults' = faults + n
Fault == faults < MaxFaults /\ faults' = faults + 1
NoFault == faults' = faults

\* ------------------------------------------------------------- the source
\* a new registration is submitted at the source
NewRecord ==
    /\ pc = "idle"
    /\ Len(source) < MaxRef
    /\ LET id == Len(source) + 1
           p == ProfileOf(id)
       IN  source' = Append(source, [id |-> id, course |-> p.course, ad |-> p.ad,
                                     participant_status |-> p.participant_status,
                                     voucher |-> p.voucher])
    /\ UNCHANGED <<campaign, sheet, backup, ledger, runs, faults, absent>>
    /\ UNCHANGED <<mainVars, writeVars, pc>>
    /\ UNCHANGED <<mergeVars, exit_code>>
    /\ UNCHANGED unitVars

\* ------------------------------------------------------------------ main
\* main(): setup and load_local_counters()
StartRun ==
    /\ pc = "idle"
    /\ runs < MaxRuns
    /\ runs' = runs + 1
    /\ \E readable \in BOOLEAN :
         /\ IF readable THEN NoFault ELSE Fault
         /\ counters' = load_local_counters(ledger, readable)
    /\ ki' = 1
    /\ readAttempt' = 0
    /\ readLog' = <<>>
    /\ existing_ids' = {}
    /\ pc' = "resolve"
    /\ UNCHANGED <<campaign, source, sheet, backup, ledger, absent>>
    /\ UNCHANGED <<count_verification_passed, query, writeVars>>
    /\ UNCHANGED <<mergeVars, exit_code>>
    /\ UNCHANGED unitVars

\* get_existing_sheet_ids: an attempt whose read succeeds
ResolveOk ==
    /\ pc = "resolve"
    /\ readAttempt' = readAttempt + 1
    /\ readLog' = Append(readLog, "ok")
    /\ existing_ids' = ParseExistingIds(sheet[Kinds[ki]])
    /\ pc' = "verify"
    /\ UNCHANGED <<envVars, ki, counters, count_verification_passed, query, writeVars>>
    /\ UNCHANGED <<mergeVars, exit_code>>
    /\ UNCHANGED unitVars

\* mutant: one read attempt too many
ResolveAttemptsOffByOne == Retries + 1

\* the attempts of get_existing_sheet_ids before it gives up
ResolveAttempts == Retries

\* get_existing_sheet_ids: an attempt whose read raises
ResolveFail ==
    /\ pc = "resolve"
    /\ Fault
    /\ readAttempt' = readAttempt + 1
    /\ readLog' = Append(readLog, "error")
    /\ pc' = IF readAttempt + 1 < ResolveAttempts THEN "resolve" ELSE "verify"
    /\ UNCHANGED <<campaign, source, sheet, backup, ledger, runs, absent>>
    /\ UNCHANGED <<ki, counters, existing_ids, count_verification_passed, query, writeVars>>
    /\ UNCHANGED <<mergeVars, exit_code>>
    /\ UNCHANGED unitVars

\* mutant: a failed count verification skips the table
AfterCountVerificationBlocking(passed) == IF passed THEN "query" ELSE "appended"

\* main(): what follows the count verification, whatever its result
AfterCountVerification(passed) == "query"

\* main(): verify_sheet_counts_against_local and the warning
VerifyCounts ==
    /\ pc = "verify"
    /\ count_verification_passed' =
          verify_sheet_counts_against_local(existing_ids, counters, Kinds[ki])
    /\ pc' = AfterCountVerification(count_verification_passed')
    /\ UNCHANGED <<envVars, ki, counters, existing_ids, readAttempt, readLog, query,
                   writeVars>>
    /\ UNCHANGED <<mergeVars, exit_code>>
    /\ UNCHANGED unitVars

\* main(): build_course_query / build_landing_page_query
BuildQuery ==
    /\ pc = "query"
    /\ query' = IF PathOf(Kinds[ki]) = "course"
                THEN build_course_query(campaign, StatusOf(Kinds[ki]), existing_ids)
                ELSE build_landing_page_query(campaign, StatusOf(Kinds[ki]), existing_ids)
    /\ pc' = "extract"
    /\ UNCHANGED <<envVars, ki, counters, existing_ids, readAttempt, readLog,
                   count_verification_passed, writeVars>>
    /\ UNCHANGED <<mergeVars, exit_code>>
    /\ UNCHANGED unitVars

\* process_query_results: the query runs and every row is formatted
Extract ==
    /\ pc = "extract"
    /\ data' = process_query_results(SourceSet, query)
    /\ target' = Kinds[ki]
    /\ caller' = "append"
    /\ pc' = "append"
    /\ UNCHANGED <<envVars, mainVars, attempt, writeLog, sheets_success, updated, ledger0>>
    /\ UNCHANGED <<mergeVars, exit_code>>
    /\ UNCHANGED unitVars

\* process_query_results: the query raises a database Error, [] is returned
ExtractFail ==
    /\ pc = "extract"
    /\ Fault
    /\ data' = <<>>
    /\ target' = Kinds[ki]
    /\ caller' = "append"
    /\ pc' = "append"
    /\ UNCHANGED <<campaign, source, sheet, backup, ledger, runs, absent>>
    /\ UNCHANGED <<mainVars, attempt, writeLog, sheets_success, updated, ledger0>>
    /\ UNCHANGED <<mergeVars, exit_code>>
    /\ UNCHANGED unitVars

\* parse_arguments, connect_to_database, setup_google_sheets: the campaign or
\* environment is invalid, or the database or the spreadsheet service cannot
\* be reached: sys.exit(1) before any table is touched
SetupFail ==
    /\ pc = "idle"
    /\ runs < MaxRuns
    /\ runs' = runs + 1
    /\ Fault
    /\ exit_code' = <<1>>
    /\ UNCHANGED <<campaign, source, sheet, backup, ledger, absent>>
    /\ UNCHANGED <<mainVars, writeVars, mergeVars, pc>>
    /\ UNCHANGED unitVars

\* ------------------------------------------------------- append_to_sheet
\* the locals of one table's processing, dead once append_to_sheet returned
LocalsReset ==
    /\ readAttempt' = 0
    /\ readLog' = <<>>
    /\ existing_ids' = {}
    /\ count_verification_passed' = TRUE
    /\ query' = build_course_query(campaign, "success", {})
    /\ data' = <<>>
    /\ target' = Kinds[1]
    /\ caller' = "append"
    /\ attempt' = 0
    /\ writeLog' = <<>>
    /\ sheets_success' = FALSE
    /\ updated' = 0
    /\ ledger0' = FreshCounters

\* main(): the next table, or the merge after the fourth
NextKind ==
    /\ pc = "appended"
    /\ IF ki < Len(Kinds)
       THEN /\ ki' = ki + 1
            /\ pc' = "resolve"
       ELSE /\ ki' = 1
            /\ pc' = "merge"
    /\ LocalsReset
    /\ UNCHANGED <<envVars, counters>>
    /\ UNCHANGED <<mergeVars, exit_code>>
    /\ UNCHANGED unitVars

\* the invocation is over: its locals are gone
ProcessEnds ==
    /\ ki' = 1
    /\ counters' = FreshCounters
    /\ mi' = 1
    /\ existing_headers' = <<>>
    /\ total_new_merges' = 0
    /\ LocalsReset
    /\ pc' = "idle"

\* process_query_results: an exception that is not a database Error (the
\* KeyError of a missing column at lines 629-634 or in the fallback row) leaves
\* the function; main()'s "except Exception" returns 1
ExtractRaise ==
    /\ pc = "extract"
    /\ Fault
    /\ exit_code' = <<1>>
    /\ ProcessEnds
    /\ UNCHANGED <<campaign, source, sheet, backup, ledger, runs, absent>>
    /\ UNCHANGED unitVars

\* the process is killed (SIGKILL, exit status 128 + 9) at any point of a run:
\* what it wrote to the spreadsheet and to the local files stays as it is
Crash ==
    /\ pc # "idle"
    /\ Fault
    /\ exit_code' = <<137>>
    /\ ProcessEnds
    /\ UNCHANGED <<campaign, source, sheet, backup, ledger, runs, absent>>
    /\ UNCHANGED unitVars

\* append_to_sheet: "if not data: return 0"
AppendEmpty ==
    /\ pc = "append"
    /\ Len(data) = 0
    /\ updated' = 0
    /\ ledger0' = ledger
    /\ pc' = "appended"
    /\ UNCHANGED <<envVars, mainVars, data, target, caller, attempt, writeLog, sheets_success>>
    /\ UNCHANGED <<mergeVars, exit_code>>
    /\ UNCHANGED unitVars

\* save_to_csv: open(filename, 'w') and writerows(data)
save_to_csv(file, rows) == IF Len(rows) > 0 THEN rows ELSE file

\* append_to_sheet: the CSV backup is saved, the write pipeline is entered
AppendBackup ==
    /\ pc = "append"
    /\ Len(data) > 0
    /\ ledger0' = ledger
    /\ backup' = [backup EXCEPT ![target] = save_to_csv(@, data)]
    /\ attempt' = 0
    /\ writeLog' = <<>>
    /\ pc' = "write"
    /\ UNCHANGED <<campaign, source, sheet, ledger, runs, faults, absent>>
    /\ UNCHANGED <<mainVars, data, target, caller, sheets_success, updated>>
    /\ UNCHANGED <<mergeVars, exit_code>>
    /\ UNCHANGED unitVars

\* append_to_sheet: save_to_csv raises, the except branch returns 0
AppendBackupFail ==
    /\ pc = "append"
    /\ Len(data) > 0
    /\ Fault
    /\ ledger0' = ledger
    /\ updated' = 0
    /\ pc' = "appended"
    /\ UNCHANGED <<campaign, source, sheet, backup, ledger, runs, absent>>
    /\ UNCHANGED <<mainVars, data, target, caller, attempt, writeLog, sheets_success>>
    /\ UNCHANGED <<mergeVars, exit_code>>
    /\ UNCHANGED unitVars

\* ----------------------------------------- write_to_google_sheets_robust
\* mutant: one write attempt too many
WriteAttemptsOffByOne == Retries + 1

\* the attempts of write_to_google_sheets_robust before it gives up
WriteAttempts == Retries

\* write_to_google_sheets_robust: where the loop goes after an attempt that
\* did not both write and verify: <<next pc, next attempt>>
AfterFailedAttempt(att) ==
    IF att < WriteAttempts - 1 THEN <<"write", att + 1>> ELSE <<"written", att>>

\* verify_write_success: every written id is among the ids of the re-read
verify_write_success(values, written) ==
    IF Len(written) <= 0 THEN TRUE
    ELSE \A i \in 1..Len(written) : written[i].id \in ParseCurrentIds(values)

\* mutant: an empty batch is reported as a failed write
EmptyWriteFails == FALSE

\* "if not data or len(data) == 0: ... return True"
EmptyWriteSucceeds == TRUE

\* write_to_google_sheets_robust: nothing to write, no call is made
WriteEmpty ==
    /\ pc = "write"
    /\ Len(data) = 0
    /\ sheets_success' = EmptyWriteSucceeds
    /\ pc' = "written"
    /\ UNCHANGED <<envVars, mainVars, data, target, caller, attempt, writeLog, updated, ledger0>>
    /\ UNCHANGED <<mergeVars, exit_code>>
    /\ UNCHANGED unitVars

\* the append call raises HttpError; nothing is written
WriteTransport ==
    /\ pc = "write"
    /\ Len(data) > 0
    /\ IF target \in absent THEN NoFault ELSE Fault
    /\ writeLog' = Append(writeLog, "transport")
    /\ pc' = AfterFailedAttempt(attempt)[1]
    /\ attempt' = AfterFailedAttempt(attempt)[2]
    /\ sheets_success' = FALSE
    /\ UNCHANGED <<campaign, source, sheet, backup, ledger, runs, absent>>
    /\ UNCHANGED <<mainVars, data, target, caller, updated, ledger0>>
    /\ UNCHANGED <<mergeVars, exit_code>>
    /\ UNCHANGED unitVars

\* the append call is accepted by the remote store
WriteAccepted ==
    /\ pc = "write"
    /\ Len(data) > 0
    /\ target \notin absent
    /\ sheet' = [sheet EXCEPT ![target] = RemoteAppend(@, data)]
    /\ pc' = "reread"
    /\ UNCHANGED <<campaign, source, backup, ledger, runs, faults, absent>>
    /\ UNCHANGED <<mainVars, writeVars>>
    /\ UNCHANGED <<mergeVars, exit_code>>
    /\ UNCHANGED unitVars

\* write_to_google_sheets_robust after verify_write_success returned
Verified(passed, how) ==
    /\ writeLog' = Append(writeLog, IF passed THEN "verified" ELSE how)
    /\ sheets_success' = passed
    /\ pc' = IF passed THEN "written" ELSE AfterFailedAttempt(attempt)[1]
    /\ attempt' = IF passed THEN attempt ELSE AfterFailedAttempt(attempt)[2]
    /\ UNCHANGED <<campaign, source, sheet, backup, ledger, runs, absent>>
    /\ UNCHANGED <<mainVars, data, target, caller, updated, ledger0>>
    /\ UNCHANGED <<mergeVars, exit_code>>

\* verify_write_success: the re-read returns the sheet as it is
RereadCurrent ==
    /\ pc = "reread"
    /\ NoFault
    /\ Verified(verify_write_success(sheet[target], data), "omitted")
    /\ UNCHANGED unitVars

\* verify_write_success: the re-read returns an earlier snapshot of the sheet,
\* in which the rows appended by this attempt are not all visible yet
RereadStale ==
    /\ pc = "reread"
    /\ Fault
    /\ \E n \in 0..(Len(sheet[target]) - 1) :
         Verified(verify_write_success(SubSeq(sheet[target], 1, n), data), "omitted")
    /\ UNCHANGED unitVars

\* verify_write_success: the re-read raises, the except branch returns False
RereadError ==
    /\ pc = "reread"
    /\ Fault
    /\ Verified(FALSE, "reread_error")
    /\ UNCHANGED unitVars

\* mutant: the counters are updated whatever the write returned
CountersAdvanceAlways(success) == TRUE

\* append_to_sheet: "if sheets_success:"
CountersAdvance(success) == success

\* append_to_sheet: counters are loaded, updated and saved after a verified write
CountersUpdate ==
    /\ pc = "written"
    /\ caller = "append"
    /\ CountersAdvance(sheets_success)
    /\ updated' = Len(data) * NumCols
    /\ \E readable \in BOOLEAN, writable \in BOOLEAN :
         /\ IF readable /\ writable THEN NoFault ELSE Fault
         /\ ledger' =
              IF writable
              THEN update_counters_after_processing(
                       load_local_counters(ledger, readable), target, Len(data),
                       campaign, "live", "now")
              ELSE ledger
    /\ pc' = "appended"
    /\ UNCHANGED <<campaign, source, sheet, backup, runs, absent>>
    /\ UNCHANGED <<mainVars, data, target, caller, attempt, writeLog, sheets_success, ledger0>>
    /\ UNCHANGED <<mergeVars, exit_code>>
    /\ UNCHANGED unitVars

\* append_to_sheet: the write failed, counters are not touched, 0 is returned
AppendFailed ==
    /\ pc = "written"
    /\ caller = "append"
    /\ ~CountersAdvance(sheets_success)
    /\ updated' = 0
    /\ pc' = "appended"
    /\ UNCHANGED <<envVars, mainVars, data, target, caller, attempt, writeLog,
                   sheets_success, ledger0>>
    /\ UNCHANGED <<mergeVars, exit_code>>
    /\ UNCHANGED unitVars

\* ------------------------------------------------------------ merge_sheets
\* the names of the sheets of one merge type
CourseSheet(merge_type) == IF merge_type = "success" THEN "course_success" ELSE "course_failed"
AdSheet(merge_type) == IF merge_type = "success" THEN "ad_success" ELSE "ad_failed"
MergeSheet(merge_type) == IF merge_type = "success" THEN "merge_success" ELSE "merge_failed"

\* "if len(row) > 0 and row[0]": the row has a key in its first column
HasKey(row) == row.src # "empty"

\* new_merged_data[key] = row: a dict keeps the position of a key's first insertion
DictPut(d, row) ==
    IF \E i \in 1..Len(d) : d[i].id = row.id
    THEN [i \in 1..Len(d) |-> IF d[i].id = row.id THEN row ELSE d[i]]
    ELSE Append(d, row)

RECURSIVE AddNewRows(_, _, _)
\* merge_sheets: one of the two loops that fill new_merged_data
AddNewRows(d, rows, existing_keys) ==
    IF Len(rows) = 0 THEN d
    ELSE LET row == Head(rows)
         IN  AddNewRows(IF HasKey(row) /\ row.id \notin existing_keys
                        THEN DictPut(d, row) ELSE d,
                        Tail(rows), existing_keys)

\* merge_sheets: existing_keys, from the first column of the merge sheet's data rows
MergeExistingKeys(merge_rows) ==
    IF Len(merge_rows) = 0 THEN {}
    ELSE {merge_rows[i].id : i \in {j \in 2..Len(merge_rows) : HasKey(merge_rows[j])}}

\* merge_sheets: the new rows, course rows first, ad rows overwriting them
new_merged_rows(course_data, ad_data, existing_keys) ==
    AddNewRows(AddNewRows(<<>>, course_data, existing_keys), ad_data, existing_keys)

\* rows[1:] of a read result
DataRows(rows) == IF Len(rows) > 1 THEN Tail(rows) ELSE <<>>

\* values().update(range="<sheet>!A1", body={'values': [headers]})
RemoteUpdateA1(values, headers) ==
    IF Len(values) = 0 THEN <<headers>> ELSE [values EXCEPT ![1] = headers]

\* main(): merge_sheets is called when the campaign has a merge_sheet entry
MergeBegin ==
    /\ pc = "merge"
    /\ campaign \in merge_sheet
    /\ mi' = 1
    /\ total_new_merges' = 0
    /\ pc' = "merge_read"
    /\ UNCHANGED <<envVars, mainVars, writeVars, existing_headers, exit_code>>
    /\ UNCHANGED unitVars

\* merge_sheets: the next merge type, or the return to main(), which returns 0
MergeAdvance ==
    /\ IF mi < Len(MergeTypes)
       THEN /\ mi' = mi + 1
            /\ pc' = "merge_read"
            /\ UNCHANGED <<counters, exit_code>>
       ELSE /\ mi' = 1
            /\ pc' = "idle"
            /\ counters' = FreshCounters
            /\ exit_code' = <<0>>
    /\ existing_headers' = <<>>
    /\ ki' = ki
    /\ LocalsReset

\* merge_sheets: both source sheets and the merge sheet are read (each read
\* may fail after its retries), the merge sheet is created when its read
\* raised, and the new rows are computed
MergeRead ==
    /\ pc = "merge_read"
    /\ \E cOk \in BOOLEAN, aOk \in BOOLEAN, tOk \in BOOLEAN, createOk \in BOOLEAN :
         LET t == MergeSheet(MergeTypes[mi])
             tRead == tOk /\ t \notin absent
             course_rows == IF cOk THEN sheet[CourseSheet(MergeTypes[mi])] ELSE <<>>
             ad_rows == IF aOk THEN sheet[AdSheet(MergeTypes[mi])] ELSE <<>>
             headers == IF Len(course_rows) > 0 /\ HasKey(course_rows[1])
                        THEN <<course_rows[1]>>
                        ELSE IF Len(ad_rows) > 0 /\ HasKey(ad_rows[1])
                             THEN <<ad_rows[1]>> ELSE <<>>
             merge_rows == IF tRead THEN sheet[t] ELSE <<>>
             keys == MergeExistingKeys(merge_rows)
             rows == new_merged_rows(DataRows(course_rows), DataRows(ad_rows), keys)
             nfaults == (IF cOk THEN 0 ELSE 1) + (IF aOk THEN 0 ELSE 1)
                        + (IF tOk THEN 0 ELSE 1) + (IF createOk THEN 0 ELSE 1)
         IN  /\ FaultN(nfaults)
             \* the merge sheet is read only when some header was found, and
             \* created only when that read raised
             /\ (headers = <<>>) => (tOk /\ createOk)
             /\ tRead => createOk
             /\ (t \notin absent) => createOk
             /\ (t \in absent) => tOk
             /\ absent' = IF headers # <<>> /\ ~tRead /\ createOk
                          THEN absent \ {t} ELSE absent
             /\ IF headers = <<>> \/ Len(rows) = 0
                THEN /\ MergeAdvance
                     /\ UNCHANGED total_new_merges
                ELSE /\ existing_headers' =
                           IF Len(merge_rows) > 0 /\ HasKey(merge_rows[1])
                           THEN <<merge_rows[1]>> ELSE <<>>
                     /\ data' = rows
                     /\ target' = t
                     /\ caller' = "merge"
                     /\ attempt' = 0
                     /\ writeLog' = <<>>
                     /\ sheets_success' = FALSE
                     /\ pc' = IF existing_headers' = <<>> THEN "merge_header" ELSE "write"
                     /\ UNCHANGED <<mainVars, updated, ledger0, mi, total_new_merges, exit_code>>
             /\ UNCHANGED <<campaign, source, sheet, backup, ledger, runs>>
    /\ UNCHANGED unitVars

\* merge_sheets: the header row is written to A1 of the merge sheet
MergeWriteHeader ==
    /\ pc = "merge_header"
    /\ target \notin absent
    /\ sheet' = [sheet EXCEPT ![target] = RemoteUpdateA1(@, HeaderRow)]
    /\ pc' = "write"
    /\ UNCHANGED <<campaign, source, backup, ledger, runs, faults, absent>>
    /\ UNCHANGED <<mainVars, writeVars, mergeVars, exit_code>>
    /\ UNCHANGED unitVars

\* merge_sheets: the header write raises HttpError on each of its 3 attempts
MergeWriteHeaderFail ==
    /\ pc = "merge_header"
    /\ IF target \in absent THEN NoFault ELSE Fault
    /\ pc' = "write"
    /\ UNCHANGED <<campaign, source, sheet, backup, ledger, runs, absent>>
    /\ UNCHANGED <<mainVars, writeVars, mergeVars, exit_code>>
    /\ UNCHANGED unitVars

\* merge_sheets: the result of the write is counted
MergeWritten ==
    /\ pc = "written"
    /\ caller = "merge"
    /\ total_new_merges' = IF sheets_success THEN total_new_merges + Len(data)
                           ELSE total_new_merges
    /\ MergeAdvance
    /\ UNCHANGED envVars
    /\ UNCHANGED unitVars

Next ==
    \/ NewRecord
    \/ StartRun
    \/ SetupFail
    \/ ResolveOk
    \/ ResolveFail
    \/ VerifyCounts
    \/ BuildQuery
    \/ Extract
    \/ ExtractFail
    \/ ExtractRaise
    \/ NextKind
    \/ AppendEmpty
    \/ AppendBackup
    \/ AppendBackupFail
    \/ WriteTransport
    \/ WriteAccepted
    \/ RereadCurrent
    \/ RereadStale
    \/ RereadError
    \/ CountersUpdate
    \/ AppendFailed
    \/ MergeBegin
    \/ MergeRead
    \/ MergeWriteHeader
    \/ MergeWriteHeaderFail
    \/ MergeWritten

Spec == Init /\ [][Next]_vars


\* ==================================================== unit specifications
\* ------------------------------------------- strings as character sequences
DigitChars == <<"0", "1", "2", "3", "4", "5", "6", "7", "8", "9">>
Digits == {DigitChars[i] : i \in 1..Len(DigitChars)}
Whitespace == {" "}

DigitValue(c) == (CHOOSE i \in 1..Len(DigitChars) : DigitChars[i] = c) - 1

RECURSIVE DecimalValue(_)
\* the integer written by a sequence of decimal digits
DecimalValue(digs) ==
    IF Len(digs) = 0 THEN 0
    ELSE DecimalValue(SubSeq(digs, 1, Len(digs) - 1)) * 10 + DigitValue(digs[Len(digs)])

RECURSIVE lstrip(_)
lstrip(s) == IF Len(s) > 0 /\ Head(s) \in Whitespace THEN lstrip(Tail(s)) ELSE s

RECURSIVE rstrip(_)
rstrip(s) ==
    IF Len(s) > 0 /\ s[Len(s)] \in Whitespace THEN rstrip(SubSeq(s, 1, Len(s) - 1)) ELSE s

\* str.strip()
strip(s) == rstrip(lstrip(s))

\* str.replace('.', '')
replace_dots(s) == SelectSeq(s, LAMBDA c : c # ".")

\* str.isdigit()
isdigit(s) == Len(s) > 0 /\ \A i \in 1..Len(s) : s[i] \in Digits

\* the digits at the start of s
RECURSIVE DigitPrefix(_)
DigitPrefix(s) ==
    IF Len(s) > 0 /\ Head(s) \in Digits THEN <<Head(s)>> \o DigitPrefix(Tail(s)) ELSE <<>>

\* float(s) does not raise ValueError: optional blanks and sign around digits
\* with at most one decimal point
FloatParses(s) ==
    LET t == strip(s)
        u == IF Len(t) > 0 /\ Head(t) \in {"-", "+"} THEN Tail(t) ELSE t
        dots == Len(SelectSeq(u, LAMBDA c : c = "."))
    IN  /\ \A i \in 1..Len(u) : u[i] \in Digits \cup {"."}
        /\ dots <= 1
        /\ Len(u) - dots > 0

\* int(float(s)): the value truncated toward zero
IntOfFloat(s) ==
    LET t == strip(s)
        neg == Len(t) > 0 /\ Head(t) = "-"
        u == IF Len(t) > 0 /\ Head(t) \in {"-", "+"} THEN Tail(t) ELSE t
        whole == DecimalValue(DigitPrefix(u))
    IN  IF neg THEN 0 - whole ELSE whole

\* ------------------------------------------------ key resolver, one read
\* the contents a cell of the identifier column may have
KeyCells ==
    { <<"7">>, <<"1", "2">>, <<"7", ".", "9">>, <<" ", "3", " ">>, <<".", "5">>,
      <<"5", ".">>, <<"1", ".", "2", ".", "3">>, <<".">>, <<"-", "5">>,
      <<"R", "e", "f">>, <<" ">>, <<>> }

\* a row of the read: [] for a blank row, else the cell of column A
KeyRows == {<<>>} \cup {<<c>> : c \in KeyCells}

RECURSIVE KeyColumns(_)
\* the results of a read of column A with at most n rows
KeyColumns(n) ==
    IF n = 0 THEN {<<>>}
    ELSE LET shorter == KeyColumns(n - 1)
         IN  shorter \cup {Append(col, r) : col \in {c \in shorter : Len(c) = n - 1},
                                            r \in KeyRows}

\* mutant: the first row is dropped only when it holds no number
PopHeaderIfLabel(vals) ==
    IF Len(vals) > 0 /\ ~(Len(vals[1]) > 0 /\ isdigit(replace_dots(strip(vals[1][1]))))
    THEN Tail(vals) ELSE vals

\* "if values and len(values) > 0: values.pop(0)"
PopHeader(vals) == IF Len(vals) > 0 THEN Tail(vals) ELSE vals

\* the loop over the rows after the header: a cell is added when it is truthy,
\* passes the isdigit test and float() does not raise (a ValueError is caught
\* and the row is skipped)
ExtractIds(vals) ==
    LET rest == PopHeader(vals)
        added == {i \in 1..Len(rest) :
                    /\ Len(rest[i]) > 0
                    /\ Len(rest[i][1]) > 0
                    /\ isdigit(replace_dots(strip(rest[i][1])))
                    /\ FloatParses(rest[i][1])}
    IN  {IntOfFloat(rest[i][1]) : i \in added}

KeysInit ==
    /\ ProgramInit
    /\ ClassIdle
    /\ TransIdle
    /\ ConcIdle
    /\ UpdIdle
    /\ FltIdle
    /\ LedIdle
    /\ SndIdle
    /\ upc = "read"
    /\ read_values \in KeyColumns(MaxKeyRows)
    /\ key_ids = {}
    /\ ver_outcome = <<>>

\* get_existing_sheet_ids: the read succeeded, the ids are extracted and returned
KeysReturn ==
    /\ upc = "read"
    /\ key_ids' = ExtractIds(read_values)
    /\ upc' = "returned"
    /\ UNCHANGED <<programVars, read_values, ver_outcome, classVars, transVars>>
    /\ UNCHANGED <<concVars, updVars, fltVars, led_log, sndVars>>

\* verify_write_success: current_ids of the re-read, and whether int(float())
\* raised; the cell is tested without strip(), and a ValueError ends the
\* function through its outer except
VerifyCurrentIds(vals) ==
    LET rest == IF Len(vals) > 1 THEN Tail(vals) ELSE <<>>
        tested == {i \in 1..Len(rest) :
                     /\ Len(rest[i]) > 0
                     /\ Len(rest[i][1]) > 0
                     /\ isdigit(replace_dots(rest[i][1]))}
        raising == {i \in tested : ~FloatParses(rest[i][1])}
        reached == {i \in tested : \A j \in raising : i < j}
    IN  [raised |-> raising # {},
         current_ids |-> {IntOfFloat(rest[i][1]) : i \in reached}]

\* verify_write_success re-reads the column the resolver has read
KeysVerify ==
    /\ upc = "returned"
    /\ ver_outcome' = <<VerifyCurrentIds(read_values)>>
    /\ upc' = "verified"
    /\ UNCHANGED <<programVars, read_values, key_ids, classVars, transVars>>
    /\ UNCHANGED <<concVars, updVars, fltVars, led_log, sndVars>>

KeysNext ==
    \/ KeysReturn
    \/ KeysVerify

KeysSpec == KeysInit /\ [][KeysNext]_vars


\* ------------------------------------- append_to_sheet and the write pipeline
\* the batches handed to a call: the first k rows, k = 0 .. MaxRef
UnitBatches == {[i \in 1..k |-> [id |-> i, src |-> "course"]] : k \in 0..MaxRef}

\* a call of append_to_sheet, or of write_to_google_sheets_robust alone, for the
\* first table, with a batch that may be empty
AppendInit ==
    /\ EnvInit
    /\ MainInit
    /\ UnitIdle
    /\ data \in UnitBatches
    /\ target = Kinds[1]
    /\ \E entry \in {"append", "write"} :
         /\ pc = entry
         /\ caller = IF entry = "append" THEN "append" ELSE "pipeline"
    /\ attempt = 0
    /\ writeLog = <<>>
    /\ sheets_success = FALSE
    /\ updated = 0
    /\ ledger0 = ledger

AppendNext ==
    \/ AppendEmpty
    \/ AppendBackup
    \/ AppendBackupFail
    \/ WriteEmpty
    \/ WriteTransport
    \/ WriteAccepted
    \/ RereadCurrent
    \/ RereadStale
    \/ RereadError
    \/ CountersUpdate
    \/ AppendFailed

AppendSpec == AppendInit /\ [][AppendNext]_vars


\* ------------------------------------------------------------ the classifier
\* None as an argument value
NoneValue == <<"<None>">>
NoneList == <<NoneValue>>

\* the sequences over S of length at most n
SeqsUpTo(S, n) == UNION {[1..k -> S] : k \in 0..n}

\* the pages and landing-page identifiers the classifier is called with
PageChars == {"a", "b"}
Pages == SeqsUpTo(PageChars, MaxPageLen) \cup {NoneValue}
LandingPageIds == {<<"a">>, <<"b", "a">>, <<>>}
LandingPageLists == SeqsUpTo(LandingPageIds, MaxLandingPages) \cup {NoneList}

\* "lp in first_page_str": the str containment test
IsSubstring(a, b) == \E i \in 0..(Len(b) - Len(a)) : SubSeq(b, i + 1, i + Len(a)) = a

\* "str(x) if x is not None else ''"
StrOrEmpty(x) == IF x = NoneValue THEN <<>> ELSE x

\* mutant: equal pages are Direct whether or not a landing page matched
determine_reg_type_equal_first(fp, lp, lps) ==
    IF lps = NoneList THEN "Error"
    ELSE LET first_page_str == StrOrEmpty(fp)
             last_page_str == StrOrEmpty(lp)
             first_match == \E i \in 1..Len(lps) : IsSubstring(lps[i], first_page_str)
             last_match == \E i \in 1..Len(lps) : IsSubstring(lps[i], last_page_str)
         IN  IF first_page_str = last_page_str THEN "Direct"
             ELSE IF first_match /\ ~last_match THEN "Indirect"
             ELSE IF last_match THEN "Direct"
             ELSE "Other"

\* mutant: equal pages without a landing-page match fall back to Direct
determine_reg_type_equal_fallback(fp, lp, lps) ==
    IF lps = NoneList THEN "Error"
    ELSE LET first_page_str == StrOrEmpty(fp)
             last_page_str == StrOrEmpty(lp)
             first_match == \E i \in 1..Len(lps) : IsSubstring(lps[i], first_page_str)
             last_match == \E i \in 1..Len(lps) : IsSubstring(lps[i], last_page_str)
         IN  IF first_page_str = last_page_str /\ first_match THEN "Direct"
             ELSE IF first_match /\ ~last_match THEN "Indirect"
             ELSE IF last_match THEN "Direct"
             ELSE IF first_page_str = last_page_str THEN "Direct"
             ELSE "Other"

\* mutant: a matching first page is Indirect unless the pages are equal
determine_reg_type_first_wins(fp, lp, lps) ==
    IF lps = NoneList THEN "Error"
    ELSE LET first_page_str == StrOrEmpty(fp)
             last_page_str == StrOrEmpty(lp)
             first_match == \E i \in 1..Len(lps) : IsSubstring(lps[i], first_page_str)
             last_match == \E i \in 1..Len(lps) : IsSubstring(lps[i], last_page_str)
         IN  IF first_page_str = last_page_str /\ first_match THEN "Direct"
             ELSE IF first_match THEN "Indirect"
             ELSE IF last_match THEN "Direct"
             ELSE "Other"

\* determine_reg_type; iterating over a list that is None raises, and the
\* except branch returns "Error"
determine_reg_type(fp, lp, lps) ==
    IF lps = NoneList THEN "Error"
    ELSE LET first_page_str == StrOrEmpty(fp)
             last_page_str == StrOrEmpty(lp)
             first_match == \E i \in 1..Len(lps) : IsSubstring(lps[i], first_page_str)
             last_match == \E i \in 1..Len(lps) : IsSubstring(lps[i], last_page_str)
         IN  IF first_page_str = last_page_str /\ first_match THEN "Direct"
             ELSE IF first_match /\ ~last_match THEN "Indirect"
             ELSE IF last_match THEN "Direct"
             ELSE "Other"

ClassInit ==
    /\ ProgramInit
    /\ KeysIdle
    /\ TransIdle
    /\ ConcIdle
    /\ UpdIdle
    /\ FltIdle
    /\ LedIdle
    /\ SndIdle
    /\ upc = "call"
    /\ first_page \in Pages
    /\ last_page \in Pages
    /\ landing_pages_list \in LandingPageLists
    /\ reg_type = ""

\* determine_reg_type returns
ClassReturn ==
    /\ upc = "call"
    /\ reg_type' = determine_reg_type(first_page, last_page, landing_pages_list)
    /\ upc' = "returned"
    /\ UNCHANGED <<programVars, keyVars, transVars, first_page, last_page, landing_pages_list>>
    /\ UNCHANGED <<concVars, updVars, fltVars, led_log, sndVars>>

ClassNext == ClassReturn

ClassSpec == ClassInit /\ [][ClassNext]_vars


\* ----------------------------------------------------------- the transformer
\* the columns a fetched row may lack, one of each way the code reads them:
\* reg_utm_url is read by the null-coalescing before the inner try, pg_res_msg
\* inside the inner try, title inside the inner try and again by the fallback
LackableFields == {"reg_utm_url", "pg_res_msg", "title"}

\* the query parameters extract_utm_parameters looks for
UtmKeys == {"utm_campaign", "utm_id", "utm_source", "utm_medium", "utm_term", "utm_content"}

\* reg_utm_url as urlparse and parse_qs see it: the path without its slashes
\* and the value of each parameter, <<>> for a parameter that is absent or
\* blank; a NULL or empty reg_utm_url is the first of them
Urls ==
    LET none == [k \in UtmKeys \cup {"first_page", "greferrer", "fbclid"} |-> <<>>]
    IN  { [path |-> <<>>, params |-> none],
          [path |-> <<"b", "a">>, params |-> none],
          [path |-> <<"b">>,
           params |-> [none EXCEPT !["greferrer"] = <<"b", "a">>,
                                   !["utm_campaign"] = <<"c">>,
                                   !["fbclid"] = <<"f">>]] }

\* the rows cursor.fetchall() may return: a row with all its columns and any
\* referal_site, reg_utm_url, pg_res_msg and pg_res_code, or a row lacking
\* columns; a NULL is NoneValue
FetchedRows ==
    {[lacks |-> {}, referal_site |-> r, reg_utm_url |-> u, pg_res_msg |-> m,
      pg_res_code |-> c] :
        r \in {NoneValue, <<"a">>}, u \in Urls, m \in {NoneValue, <<"d">>}, c \in {21, 99}}
    \cup
    {[lacks |-> l, referal_site |-> r, reg_utm_url |-> CHOOSE u \in Urls : u.path = <<"b">>,
      pg_res_msg |-> <<"d">>, pg_res_code |-> 21] :
        l \in SUBSET LackableFields, r \in {NoneValue, <<"a">>}}

\* the batches cursor.fetchall() may return, before the ids are given
FetchedBatches == UNION {[1..k -> FetchedRows] : k \in 0..MaxBatch}

\* landing_pages.get(campaign, [])
campaign_landing_pages == <<<<"b", "a">>>>

\* extract_utm_parameters: each parameter from the query string, first_page
\* from the path when the query has none, greferrer from referal_site when the
\* query has none
extract_utm_parameters(url, referal_site) ==
    [k \in DOMAIN url.params |->
        IF k = "first_page" /\ url.params[k] = <<>> THEN url.path
        ELSE IF k = "greferrer" /\ url.params[k] = <<>> THEN referal_site
        ELSE url.params[k]]

\* juspay_status.get(code, '')
juspay_status(code) ==
    IF code = 21 THEN <<"Successful transaction">>
    ELSE IF code = 26 THEN <<"User did not complete authentication">>
    ELSE <<>>

\* lines 644-647: the status text, the pieces of the f-string in order
status_text(row, status_type) ==
    IF status_type = "success" THEN <<"Success">>
    ELSE IF StrOrEmpty(row.pg_res_msg) # <<>>
         THEN <<"Failed: ">> \o row.pg_res_msg \o <<" (">>
                 \o juspay_status(row.pg_res_code) \o <<")">>
         ELSE <<"Failed">>

\* the columns both rows copy from the fetched row: a column that is not
\* varied holds the value <<column, id>>
CopiedColumns(row) ==
    [id |-> row.id,
     course_id |-> <<"accounting_course_id_201", row.id>>,
     course_name |-> <<"title", row.id>>,
     name |-> <<"name", row.id>>,
     email |-> <<"participant_email", row.id>>,
     phone |-> <<"participant_phone", row.id>>,
     submitted_on |-> <<"submitted_on", row.id>>,
     referal_site |-> StrOrEmpty(row.referal_site),
     reg_utm_url |-> row.reg_utm_url]

\* lines 629-634: row['reg_utm_url'] = row['reg_utm_url'] or "" raises KeyError
\* outside the inner try
CoalesceRaises(row) == "reg_utm_url" \in row.lacks

\* lines 639-678: the inner try raises KeyError
FormatRaises(row, status_type) ==
    \/ status_type = "failed" /\ "pg_res_msg" \in row.lacks
    \/ "title" \in row.lacks

\* lines 684-706: the fallback row is built from the same identifying columns
FallbackRaises(row) == "title" \in row.lacks

\* the fallback row of the inner except branch
FallbackRow(row) ==
    <<CopiedColumns(row) @@
      [status |-> <<"Error">>,
       first_page |-> <<>>,
       last_page |-> StrOrEmpty(row.referal_site),
       utm |-> [k \in UtmKeys |-> <<>>],
       fbclid |-> <<>>,
       reg_type |-> "Error"]>>

\* the formatted row of the inner try
FormattedRow(row, status_type) ==
    LET utm_params == extract_utm_parameters(row.reg_utm_url, StrOrEmpty(row.referal_site))
    IN  <<CopiedColumns(row) @@
          [status |-> status_text(row, status_type),
           first_page |-> utm_params["first_page"],
           last_page |-> utm_params["greferrer"],
           utm |-> [k \in UtmKeys |-> utm_params[k]],
           fbclid |-> utm_params["fbclid"],
           reg_type |-> determine_reg_type(utm_params["first_page"], utm_params["greferrer"],
                                           campaign_landing_pages)]>>

TransInit ==
    /\ ProgramInit
    /\ KeysIdle
    /\ ClassIdle
    /\ ConcIdle
    /\ UpdIdle
    /\ FltIdle
    /\ LedIdle
    /\ SndIdle
    /\ upc = "loop"
    /\ \E f \in FetchedBatches : fetched = [i \in DOMAIN f |-> [id |-> i] @@ f[i]]
    /\ tr_status \in {"success", "failed"}
    /\ row_index = 0
    /\ formatted = <<>>

\* one iteration of "for row_index, row in enumerate(rows)" that appends a row
TransformRow ==
    /\ upc = "loop"
    /\ row_index < Len(fetched)
    /\ LET row == fetched[row_index + 1]
       IN  /\ ~CoalesceRaises(row)
           /\ ~(FormatRaises(row, tr_status) /\ FallbackRaises(row))
           /\ formatted' = formatted \o
                  (IF FormatRaises(row, tr_status) THEN FallbackRow(row)
                   ELSE FormattedRow(row, tr_status))
    /\ row_index' = row_index + 1
    /\ UNCHANGED <<programVars, keyVars, classVars, upc, fetched, tr_status>>
    /\ UNCHANGED <<concVars, updVars, fltVars, led_log, sndVars>>

\* an iteration whose KeyError is raised outside the inner try, or by the
\* fallback: "except Error" does not catch it and it leaves the function
TransformRaise ==
    /\ upc = "loop"
    /\ row_index < Len(fetched)
    /\ LET row == fetched[row_index + 1]
       IN  \/ CoalesceRaises(row)
           \/ FormatRaises(row, tr_status) /\ FallbackRaises(row)
    /\ upc' = "raised"
    /\ UNCHANGED <<programVars, keyVars, classVars, fetched, tr_status, row_index, formatted>>
    /\ UNCHANGED <<concVars, updVars, fltVars, led_log, sndVars>>

\* "if not rows: return []", or "return data" after the loop
TransformReturn ==
    /\ upc = "loop"
    /\ row_index = Len(fetched)
    /\ upc' = "returned"
    /\ UNCHANGED <<programVars, keyVars, classVars, fetched, tr_status, row_index, formatted>>
    /\ UNCHANGED <<concVars, updVars, fltVars, led_log, sndVars>>

TransNext ==
    \/ TransformRow
    \/ TransformRaise
    \/ TransformReturn

TransSpec == TransInit /\ [][TransNext]_vars


\* ------------------------------------------------- interrupted invocations
\* the invocations with their remote calls answered, any of them killed at any
\* point; the key read and the ledger file may still fail
CrashNext ==
    \/ NewRecord
    \/ StartRun
    \/ ResolveOk
    \/ ResolveFail
    \/ VerifyCounts
    \/ BuildQuery
    \/ Extract
    \/ NextKind
    \/ AppendEmpty
    \/ AppendBackup
    \/ WriteAccepted
    \/ RereadCurrent
    \/ CountersUpdate
    \/ MergeBegin
    \/ MergeRead
    \/ MergeWriteHeader
    \/ MergeWritten
    \/ Crash

CrashSpec == Init /\ [][CrashNext]_vars


\* -------------------------------------------------- concurrent invocations
\* two invocations of the script on the same spreadsheet, each at its first
\* table (main(), lines 1076-1086); every remote call is one step, and the
\* steps of the two invocations interleave freely
Procs == {1, 2}

\* what a step of an invocation leaves alone besides the shared files
concFrame ==
    <<campaign, source, runs, absent, mainVars, writeVars, mergeVars, pc, exit_code,
      upc, keyVars, classVars, transVars, updVars, fltVars, led_log, sndVars>>

ConcInit ==
    /\ ProgramInit
    /\ upc = "idle"
    /\ KeysIdle
    /\ ClassIdle
    /\ TransIdle
    /\ UpdIdle
    /\ FltIdle
    /\ LedIdle
    /\ SndIdle
    /\ procs = [p \in Procs |-> ProcIdle]
    /\ overlapped = FALSE

\* an invocation is started, possibly while the other one is running
ConcStart(p) ==
    /\ procs[p].pc = "idle"
    /\ procs' = [procs EXCEPT ![p].pc = "resolve"]
    /\ overlapped' = (overlapped \/ \E q \in Procs \ {p} : procs[q].pc \notin {"idle", "done"})
    /\ UNCHANGED <<sheet, backup, ledger, faults, concFrame>>

\* get_existing_sheet_ids: one attempt; the read returns column A, or raises
ConcResolve(p) ==
    /\ procs[p].pc = "resolve"
    /\ \/ /\ NoFault
          /\ procs' = [procs EXCEPT
                ![p].existing_ids = ParseExistingIds(sheet[Kinds[1]]),
                ![p].readLog = Append(@, "ok"),
                ![p].pc = "extract"]
       \/ /\ Fault
          /\ procs' = [procs EXCEPT
                ![p].readLog = Append(@, "error"),
                ![p].pc = IF Len(procs[p].readLog) + 1 < ResolveAttempts
                          THEN "resolve" ELSE "extract"]
    /\ UNCHANGED <<sheet, backup, ledger, overlapped, concFrame>>

\* build_course_query, process_query_results and the backup of append_to_sheet
ConcExtract(p) ==
    /\ procs[p].pc = "extract"
    /\ LET rows == process_query_results(
                       SourceSet, build_course_query(campaign, "success",
                                                     procs[p].existing_ids))
       IN  /\ procs' = [procs EXCEPT ![p].data = rows,
                                      ![p].pc = IF Len(rows) = 0 THEN "done" ELSE "write"]
           /\ backup' = [backup EXCEPT ![Kinds[1]] = save_to_csv(@, rows)]
    /\ UNCHANGED <<sheet, ledger, faults, overlapped, concFrame>>

\* write_to_google_sheets_robust: the append call is accepted, or raises
ConcWrite(p) ==
    /\ procs[p].pc = "write"
    /\ \/ /\ NoFault
          /\ sheet' = [sheet EXCEPT ![Kinds[1]] = RemoteAppend(@, procs[p].data)]
          /\ procs' = [procs EXCEPT ![p].pc = "reread"]
       \/ /\ Fault
          /\ UNCHANGED sheet
          /\ procs' = [procs EXCEPT
                ![p].writeLog = Append(@, "transport"),
                ![p].pc = AfterFailedAttempt(procs[p].attempt)[1],
                ![p].attempt = AfterFailedAttempt(procs[p].attempt)[2]]
    /\ UNCHANGED <<backup, ledger, overlapped, concFrame>>

\* verify_write_success: the re-read returns the sheet, or raises
ConcReread(p) ==
    /\ procs[p].pc = "reread"
    /\ \E raised \in BOOLEAN :
         LET passed == ~raised /\ verify_write_success(sheet[Kinds[1]], procs[p].data)
         IN  /\ IF raised THEN Fault ELSE NoFault
             /\ procs' = [procs EXCEPT
                   ![p].writeLog = Append(@, IF passed THEN "verified"
                                             ELSE IF raised THEN "reread_error"
                                             ELSE "omitted"),
                   ![p].sheets_success = passed,
                   ![p].pc = IF passed THEN "written"
                             ELSE AfterFailedAttempt(procs[p].attempt)[1],
                   ![p].attempt = IF passed THEN @
                                  ELSE AfterFailedAttempt(procs[p].attempt)[2]]
    /\ UNCHANGED <<sheet, backup, ledger, overlapped, concFrame>>

\* append_to_sheet: the counters are updated after a verified write
ConcFinish(p) ==
    /\ procs[p].pc = "written"
    /\ ledger' = IF CountersAdvance(procs[p].sheets_success)
                 THEN update_counters_after_processing(
                          ledger, Kinds[1], Len(procs[p].data), campaign, "live", "now")
                 ELSE ledger
    /\ procs' = [procs EXCEPT ![p].pc = "done"]
    /\ UNCHANGED <<sheet, backup, faults, overlapped, concFrame>>

ConcNext ==
    \/ NewRecord
    \/ \E p \in Procs :
         \/ ConcStart(p)
         \/ ConcResolve(p)
         \/ ConcExtract(p)
         \/ ConcWrite(p)
         \/ ConcReread(p)
         \/ ConcFinish(p)

ConcSpec == ConcInit /\ [][ConcNext]_vars


\* ------------------------------------------------ merge_sheets called alone
\* a source sheet: the header row and the rows of some refs, in ref order
SourceSheets(path) ==
    {<<HeaderRow>> \o SortById({[id |-> i, src |-> path] : i \in ids}) :
        ids \in SUBSET (1..MaxRef)}

\* merge_sheets is called repeatedly on source sheets that do not change; the
\* merge sheets do not exist before the first call
MergeInit ==
    /\ campaign \in Campaigns
    /\ source = <<>>
    /\ \E cs \in SourceSheets("course"), as \in SourceSheets("ad") :
         sheet = [t \in Tables |->
                    IF t = "course_success" THEN cs
                    ELSE IF t = "ad_success" THEN as
                    ELSE IF t \in KindSet THEN <<HeaderRow>> ELSE <<>>]
    /\ backup = [k \in KindSet |-> <<>>]
    /\ ledger = FreshCounters
    /\ runs = 0
    /\ faults = 0
    /\ absent = MergeTables
    /\ MainInit
    /\ WriteInit
    /\ UnitIdle
    /\ pc = "idle"

\* main(): the point after the four tables, where merge_sheets is called
MergeCall ==
    /\ pc = "idle"
    /\ runs < MaxRuns
    /\ runs' = runs + 1
    /\ pc' = "merge"
    /\ UNCHANGED <<campaign, source, sheet, backup, ledger, faults, absent>>
    /\ UNCHANGED <<mainVars, writeVars, mergeVars, exit_code, unitVars>>

MergeNext ==
    \/ MergeCall
    \/ MergeBegin
    \/ MergeRead
    \/ MergeWriteHeader
    \/ MergeWriteHeaderFail
    \/ WriteTransport
    \/ WriteAccepted
    \/ RereadCurrent
    \/ RereadStale
    \/ RereadError
    \/ MergeWritten

MergeSpec == MergeInit /\ [][MergeNext]_vars

\* ------------------------------------------------------ the ledger update
\* the counters a call may be given: fresh ones, or counters saved by an
\* earlier run
CountersValues ==
    {[count |-> c, total_processed |-> t, last_updated |-> st[1], campaign |-> st[2],
      environment |-> st[3]] :
        c \in [KindSet -> 0..MaxRef], t \in 0..MaxRef,
        st \in {<<"", "", "">>, <<"earlier", "whd-mar2025", "stage">>}}

\* update_counters_after_processing is called with any counters, sheet type,
\* count, campaign and environment
UpdInit ==
    /\ ProgramInit
    /\ KeysIdle
    /\ ClassIdle
    /\ TransIdle
    /\ ConcIdle
    /\ FltIdle
    /\ LedIdle
    /\ SndIdle
    /\ upc = "call"
    /\ \E cnt \in CountersValues, k \in KindSet, n \in 0..MaxRef, c \in sheet_ids,
          e \in db_config :
         upd_args = <<[counters |-> cnt, sheet_type |-> k, new_count |-> n,
                       campaign |-> c, environment |-> e]>>
    /\ upd_result = <<>>

\* update_counters_after_processing returns: the updates are made on
\* counters.copy(), the dictionary passed in is not written
UpdReturn ==
    /\ upc = "call"
    /\ LET a == upd_args[1]
       IN  upd_result' = <<update_counters_after_processing(
                              a.counters, a.sheet_type, a.new_count, a.campaign,
                              a.environment, "now")>>
    /\ upc' = "returned"
    /\ UNCHANGED <<programVars, keyVars, classVars, transVars, concVars, fltVars, upd_args>>
    /\ UNCHANGED <<led_log, sndVars>>

UpdNext == UpdReturn

UpdSpec == UpdInit /\ [][UpdNext]_vars

\* ------------------------------------------------- the ledger across runs
\* the campaigns whose runs share the counter file
LedCampaigns == {"whd-mar2025", "mc-jan2025"}

\* runs of any of the campaigns and environments start from a missing counter
\* file (EnvInit); led_log holds the last counter update
LedInit ==
    /\ ProgramInit
    /\ KeysIdle
    /\ ClassIdle
    /\ TransIdle
    /\ ConcIdle
    /\ UpdIdle
    /\ FltIdle
    /\ LedIdle
    /\ SndIdle
    /\ upc = "led"

\* append_to_sheet after a verified write of the run of some campaign and
\* environment: load_local_counters, update_counters_after_processing and
\* save_local_counters; a failed load gives fresh counters, a failed save
\* leaves the file as it was
LedAppend ==
    /\ upc = "led"
    /\ runs < MaxUpdates
    /\ runs' = runs + 1
    /\ \E camp \in LedCampaigns, env \in db_config, sheet_type \in KindSet,
          new_count \in 1..MaxBatch, readable \in BOOLEAN, writable \in BOOLEAN :
         /\ IF readable /\ writable THEN NoFault ELSE Fault
         /\ campaign' = camp
         /\ ledger' =
              IF writable
              THEN update_counters_after_processing(
                       load_local_counters(ledger, readable), sheet_type, new_count,
                       camp, env, "now")
              ELSE ledger
         /\ led_log' = <<[sheet_type |-> sheet_type, new_count |-> new_count,
                          campaign |-> camp, environment |-> env,
                          loaded |-> readable, saved |-> writable, before |-> ledger]>>
    /\ UNCHANGED <<source, sheet, backup, absent, mainVars, writeVars, mergeVars, pc,
                   exit_code, upc, keyVars, classVars, transVars, concVars, updVars,
                   fltVars, sndVars>>

LedNext == LedAppend

LedSpec == LedInit /\ [][LedNext]_vars

\* ------------------------------------------------------- the filter builder
\* a record of the source: whether it matches the course clauses and the
\* landing-page clause, its status, and whether civicrm_voucher holds its id
FltRecords ==
    [id : 1..MaxRef, course : BOOLEAN, ad : BOOLEAN, participant_status : {1, 5, 19},
     voucher : BOOLEAN]

\* both builders are called with any configured campaign, status type and
\* existing ids; the source holds one record
FltInit ==
    /\ ProgramInit
    /\ KeysIdle
    /\ ClassIdle
    /\ TransIdle
    /\ ConcIdle
    /\ UpdIdle
    /\ LedIdle
    /\ SndIdle
    /\ upc = "call"
    /\ \E c \in sheet_ids, st \in {"success", "failed"}, ids \in SUBSET (1..MaxRef),
          rec \in FltRecords :
         flt_args = <<[campaign |-> c, status_type |-> st, existing_ids |-> ids,
                       record |-> rec]>>
    /\ flt_queries = <<>>

\* build_course_query and build_landing_page_query return
FltReturn ==
    /\ upc = "call"
    /\ LET a == flt_args[1]
       IN  flt_queries' =
             <<build_course_query(a.campaign, a.status_type, a.existing_ids),
               build_landing_page_query(a.campaign, a.status_type, a.existing_ids)>>
    /\ upc' = "returned"
    /\ UNCHANGED <<programVars, keyVars, classVars, transVars, concVars, updVars, flt_args>>
    /\ UNCHANGED <<led_log, sndVars>>

FltNext == FltReturn

FilterSpec == FltInit /\ [][FltNext]_vars

\* ------------------------------------------------------ the conversion sender
\* fbclid_update_fb.py
MAX_ATTEMPTS == 5

\* COLUMN_MAPS (0-indexed)
COLUMN_MAPS(sheet_type) ==
    IF sheet_type = "leads"
    THEN [first_name |-> 23, last_name |-> 22, email |-> 2, phone |-> 1, fbclid |-> 10,
          converted |-> 34, fbclid_sent |-> 35, attempts |-> 36, utm_source |-> 4,
          utm_medium |-> 9, utm_campaign |-> 3, utm_content |-> 7, utm_term |-> 8,
          url |-> 27, ip_address |-> 15, submitted_date |-> 29]
    ELSE [name |-> 3, email |-> 4, phone |-> 5, fbclid |-> 18, fbclid_sent |-> 22,
          attempts |-> 23, utm_source |-> 14, utm_medium |-> 15, utm_campaign |-> 12,
          utm_content |-> 17, utm_term |-> 16, url |-> 9, submitted_date |-> 6]

\* CONFIG[...]['sheets']: the two sheets of a configuration
SheetConfigs ==
    {[type |-> "participants", check_converted |-> FALSE],
     [type |-> "leads", check_converted |-> TRUE]}

\* max(column_map.values())
MaxColumn(column_map) ==
    CHOOSE m \in {column_map[k] : k \in DOMAIN column_map} :
        \A k \in DOMAIN column_map : column_map[k] <= m

\* str.upper() on the letters the flag cells hold
upper(s) ==
    [i \in 1..Len(s) |-> IF s[i] = "y" THEN "Y" ELSE IF s[i] = "n" THEN "N" ELSE s[i]]

\* int(s) does not raise ValueError: blanks around an optional sign and digits
IntParses(s) ==
    LET t == strip(s)
        u == IF Len(t) > 0 /\ Head(t) \in {"-", "+"} THEN Tail(t) ELSE t
    IN  isdigit(u)

\* int(s)
IntOf(s) ==
    LET t == strip(s)
        u == IF Len(t) > 0 /\ Head(t) \in {"-", "+"} THEN Tail(t) ELSE t
    IN  IF Len(t) > 0 /\ Head(t) = "-" THEN 0 - DecimalValue(u) ELSE DecimalValue(u)

RECURSIVE StrOfNat(_)
\* the decimal text the sheet shows for a number written RAW
StrOfNat(n) ==
    IF n < 10 THEN <<DigitChars[n + 1]>>
    ELSE StrOfNat(n \div 10) \o <<DigitChars[(n % 10) + 1]>>

\* filter_rows_to_process: attempts as the filter reads the cell
FilterAttempts(cell) ==
    LET attempts_str == IF cell # <<>> THEN cell ELSE <<"0">>
    IN  IF IntParses(attempts_str) THEN IntOf(attempts_str) ELSE 0

\* mutant: a row is selected up to and including MAX_ATTEMPTS attempts
RowSelectedInclusive(row, column_map, check_converted) ==
    LET converted_check ==
            IF check_converted /\ "converted" \in DOMAIN column_map
            THEN upper(row[column_map["converted"]]) = <<"Y">>
            ELSE TRUE
    IN  /\ converted_check
        /\ row[column_map["fbclid"]] # <<>>
        /\ upper(row[column_map["fbclid_sent"]]) # <<"Y">>
        /\ FilterAttempts(row[column_map["attempts"]]) <= MAX_ATTEMPTS

\* filter_rows_to_process: the test of one padded row
RowSelected(row, column_map, check_converted) ==
    LET converted_check ==
            IF check_converted /\ "converted" \in DOMAIN column_map
            THEN upper(row[column_map["converted"]]) = <<"Y">>
            ELSE TRUE
    IN  /\ converted_check
        /\ row[column_map["fbclid"]] # <<>>
        /\ upper(row[column_map["fbclid_sent"]]) # <<"Y">>
        /\ FilterAttempts(row[column_map["attempts"]]) < MAX_ATTEMPTS

\* filter_rows_to_process: (index + 2, row) of the selected rows, in sheet order
filter_rows_to_process(rows, column_map, check_converted) ==
    SelectSeq([i \in 1..Len(rows) |-> [row_index |-> i + 1, row |-> rows[i]]],
              LAMBDA e : RowSelected(e.row, column_map, check_converted))

\* the column the range "<sheet>!<chr(65 + n)><row>" names: <<column>> for a
\* letter, <<>> when chr(65 + n) is no letter; a lower-case letter names the
\* column of its upper-case letter
RangeColumn(n) ==
    LET code == 65 + n
    IN  IF code \in 65..90 THEN <<code - 65>>
        ELSE IF code \in 97..122 THEN <<code - 97>>
        ELSE <<>>

\* update_sheet: the cells of the batch update, in order: <<row, column, value>>
UpdateCells(column_map, upds) ==
    LET cellsOf(u) ==
            << [row_index |-> u.row_index, col |-> RangeColumn(column_map["fbclid_sent"]),
                value |-> u.sent_status],
               [row_index |-> u.row_index, col |-> RangeColumn(column_map["attempts"]),
                value |-> StrOfNat(u.attempts)] >>
            \o (IF u.error_message # <<>>
                THEN << [row_index |-> u.row_index,
                         col |-> RangeColumn(column_map["attempts"] + 1),
                         value |-> u.error_message] >>
                ELSE <<>>)
        RECURSIVE all(_)
        all(k) == IF k = 0 THEN <<>> ELSE all(k - 1) \o cellsOf(upds[k])
    IN  all(Len(upds))

\* values().batchUpdate: the rows after the cells are written, the later cell
\* of a range winning
BatchUpdate(rows, cells) ==
    [i \in 1..Len(rows) |->
        [c \in DOMAIN rows[i] |->
            LET hits == {k \in 1..Len(cells) :
                            cells[k].row_index = i + 1 /\ cells[k].col = <<c>>}
            IN  IF hits = {} THEN rows[i][c]
                ELSE cells[CHOOSE k \in hits : \A h \in hits : h <= k].value]]

\* the cells a sheet may hold in the columns the sender reads
FbclidCells == {<<>>, <<"f">>}
FlagCells == {<<>>, <<"Y">>, <<"y">>, <<"N">>}
AttemptCells == {<<>>, <<"4">>, <<"5">>, <<"a">>}

\* a data row as read_sheet_data returns it and filter_rows_to_process pads it:
\* a cell per column up to the one after the last mapped column, empty for a
\* cell the sheet does not hold; the other mapped columns hold some text
SenderRow(column_map, f, snt, att, conv) ==
    [c \in 0..(MaxColumn(column_map) + 1) |->
        IF c = column_map["fbclid"] THEN f
        ELSE IF c = column_map["fbclid_sent"] THEN snt
        ELSE IF c = column_map["attempts"] THEN att
        ELSE IF "converted" \in DOMAIN column_map /\ c = column_map["converted"] THEN conv
        ELSE IF c \in {column_map[k] : k \in DOMAIN column_map} THEN <<"x">>
        ELSE <<>>]

\* every combination of the cells the selection reads
FullRows(column_map) ==
    {SenderRow(column_map, f, snt, att, conv) :
        f \in FbclidCells, snt \in FlagCells, att \in AttemptCells,
        conv \in IF "converted" \in DOMAIN column_map THEN FlagCells \ {<<"N">>}
                 ELSE {<<>>}}

\* a row without an ad-click id, and a row that is selected and has a
\* non-numeric attempts cell
PlainRows(column_map) ==
    {SenderRow(column_map, <<>>, <<>>, <<>>, <<"Y">>),
     SenderRow(column_map, <<"f">>, <<>>, <<"a">>, <<"Y">>)}

\* everything but the sender's variables, upc and faults
sndFrame ==
    <<campaign, source, sheet, backup, ledger, runs, absent, mainVars, writeVars,
      mergeVars, pc, exit_code, keyVars, classVars, transVars, concVars, updVars,
      fltVars, led_log>>

\* the locals of process_sheet when it is not running
SndLocalsReset ==
    /\ rows_to_process' = <<>>
    /\ fb_i' = 0
    /\ new_attempts' = <<>>
    /\ updates' = <<>>

\* main() is run repeatedly on one sheet of the configuration; the history
\* starts with the sends the sheet records
SndInit ==
    /\ ProgramInit
    /\ KeysIdle
    /\ ClassIdle
    /\ TransIdle
    /\ ConcIdle
    /\ UpdIdle
    /\ FltIdle
    /\ LedIdle
    /\ upc = "snd_idle"
    /\ fb_config \in SheetConfigs
    /\ LET column_map == COLUMN_MAPS(fb_config.type)
       IN  /\ \E k \in 0..MaxSheetRows, i \in 0..MaxSheetRows :
                \E p \in [1..k -> PlainRows(column_map)], r \in FullRows(column_map) :
                    fb_sheet = [j \in 1..k |-> IF j = i THEN r ELSE p[j]]
           /\ fb_log = [j \in 1..Len(fb_sheet) |->
                          [sends |-> FilterAttempts(fb_sheet[j][column_map["attempts"]]),
                           ok |-> upper(fb_sheet[j][column_map["fbclid_sent"]]) = <<"Y">>]]
    /\ rows_to_process = <<>>
    /\ fb_i = 0
    /\ new_attempts = <<>>
    /\ updates = <<>>
    /\ fb_run = [n |-> 0, sent |-> {}, ok |-> {}]

\* process_sheet: the sheet is read and the rows are filtered; it returns at
\* once when the read fails or gives no data, or when no row is selected
SndStart ==
    /\ upc = "snd_idle"
    /\ fb_run.n < MaxSendRuns
    /\ fb_run' = [n |-> fb_run.n + 1, sent |-> {}, ok |-> {}]
    /\ \E read_ok \in BOOLEAN :
         LET data_rows == IF read_ok THEN fb_sheet ELSE <<>>
             selected == filter_rows_to_process(data_rows, COLUMN_MAPS(fb_config.type),
                                                fb_config.check_converted)
         IN  /\ IF read_ok THEN NoFault ELSE Fault
             /\ rows_to_process' = selected
             /\ fb_i' = IF selected = <<>> THEN 0 ELSE 1
             /\ upc' = IF selected = <<>> THEN "snd_idle" ELSE "snd_loop"
    /\ UNCHANGED <<fb_config, fb_sheet, new_attempts, updates, fb_log, sndFrame>>

\* process_sheet: one iteration of the loop over rows_to_process
SndRow ==
    /\ upc = "snd_loop"
    /\ LET e == rows_to_process[fb_i]
           cell == e.row[COLUMN_MAPS(fb_config.type)["attempts"]]
           last == fb_i = Len(rows_to_process)
       IN  IF cell # <<>> /\ ~IntParses(cell)
           THEN \* int() raises ValueError: the except branch uses new_attempts
                \* of the row before, or raises when it is still unbound
                /\ NoFault
                /\ IF new_attempts = <<>>
                   THEN /\ upc' = "snd_idle"
                        /\ SndLocalsReset
                   ELSE /\ updates' = Append(updates,
                              [row_index |-> e.row_index, sent_status |-> <<"N">>,
                               attempts |-> new_attempts[1], error_message |-> <<"E">>])
                        /\ fb_i' = fb_i + 1
                        /\ upc' = IF last THEN "snd_update" ELSE "snd_loop"
                        /\ UNCHANGED <<rows_to_process, new_attempts>>
                /\ UNCHANGED <<fb_log, fb_run>>
           ELSE \E success \in BOOLEAN :
                /\ IF success THEN NoFault ELSE Fault
                /\ new_attempts' = <<(IF cell # <<>> THEN IntOf(cell) ELSE 0) + 1>>
                /\ updates' = Append(updates,
                      [row_index |-> e.row_index,
                       sent_status |-> IF success THEN <<"Y">> ELSE <<"N">>,
                       attempts |-> new_attempts'[1],
                       error_message |-> IF success THEN <<>> ELSE <<"E">>])
                /\ fb_log' = [fb_log EXCEPT ![e.row_index - 1] =
                                [sends |-> @.sends + 1, ok |-> @.ok \/ success]]
                /\ fb_run' = [fb_run EXCEPT
                                !.sent = @ \cup {e.row_index},
                                !.ok = IF success THEN @ \cup {e.row_index} ELSE @]
                /\ fb_i' = fb_i + 1
                /\ upc' = IF last THEN "snd_update" ELSE "snd_loop"
                /\ UNCHANGED rows_to_process
    /\ UNCHANGED <<fb_config, fb_sheet, sndFrame>>

\* update_sheet: the batch update is executed, or raises and nothing is
\* written; a range whose column is no letter is refused, and one with a
\* lower-case letter is either read as its upper-case letter or refused
SndUpdate ==
    /\ upc = "snd_update"
    /\ LET cells == UpdateCells(COLUMN_MAPS(fb_config.type), updates)
           codes == {65 + COLUMN_MAPS(fb_config.type)["fbclid_sent"],
                     65 + COLUMN_MAPS(fb_config.type)["attempts"]}
           no_letter == \E k \in 1..Len(cells) : cells[k].col = <<>>
           lower == \E c \in codes : c \in 97..122
       IN  \/ /\ ~no_letter
              /\ NoFault
              /\ fb_sheet' = BatchUpdate(fb_sheet, cells)
           \/ /\ no_letter \/ lower
              /\ NoFault
              /\ UNCHANGED fb_sheet
           \/ /\ Fault
              /\ UNCHANGED fb_sheet
    /\ upc' = "snd_idle"
    /\ SndLocalsReset
    /\ UNCHANGED <<fb_config, fb_log, fb_run, sndFrame>>

SndNext ==
    \/ SndStart
    \/ SndRow
    \/ SndUpdate

SendSpec == SndInit /\ [][SndNext]_vars

\* =================================================================== claims
\* no id occurs in two data rows
NoDuplicateRefs(rows) ==
    \A i, j \in 2..Len(rows) :
        (i # j /\ IsNumericCell(rows[i]) /\ IsNumericCell(rows[j])) => rows[i].id # rows[j].id

\* C1: at-most-once write: after any sequence of runs, also with failed and
\* retried writes, no ref occurs in more than one data row of a destination table
C1_AtMostOnce == \A k \in KindSet : NoDuplicateRefs(sheet[k])

\* every attempt of the current write was accepted and its re-read omitted a written id
EveryAttemptOmitted ==
    /\ writeLog # <<>>
    /\ \A i \in 1..Len(writeLog) : writeLog[i] = "omitted"

\* C2: when every attempt's re-read omits a written identifier, the write
\* reports failure, append_to_sheet returns 0 and the persisted ledger is what
\* it was when append_to_sheet began
C2_UnverifiedWriteFails ==
    (pc \in {"written", "appended"} /\ caller = "append" /\ EveryAttemptOmitted) =>
        /\ Len(writeLog) = Retries
        /\ ~sheets_success
        /\ ledger = ledger0
        /\ (pc = "appended" => updated = 0)

C2_Witness ==
    /\ pc = "appended"
    /\ caller = "append"
    /\ EveryAttemptOmitted
    /\ Len(sheet[target]) > Len(data) + 1

\* the ids of the source records that match a table's extraction rules
MatchingIds(kind) ==
    {r.id : r \in {x \in SourceSet :
        Satisfies(x, IF PathOf(kind) = "course"
                     THEN build_course_query(campaign, StatusOf(kind), {})
                     ELSE build_landing_page_query(campaign, StatusOf(kind), {}))}}

\* C3: idempotence across runs: in a second run for which the source holds no
\* record that is not in the destination table yet, the key resolver returns
\* the table's key set and nothing is extracted for appending
C3_Idempotence ==
    (/\ runs >= 2
     /\ pc \in {"verify", "query", "extract", "append"}
     /\ MatchingIds(Kinds[ki]) \subseteq ParseExistingIds(sheet[Kinds[ki]])) =>
        /\ existing_ids = ParseExistingIds(sheet[Kinds[ki]])
        /\ (pc = "append" => Len(data) = 0)

\* C4: dedup correctness: with a non-empty resolved key set, no source row
\* whose ref is in the set satisfies the predicate of either extraction path,
\* and no such row is among the extracted rows
C4_DedupCorrectness ==
    /\ (pc \in {"query", "extract", "append"} /\ existing_ids # {}) =>
          \A r \in SourceSet : \A st \in {"success", "failed"} :
              r.id \in existing_ids =>
                 /\ ~Satisfies(r, build_course_query(campaign, st, existing_ids))
                 /\ ~Satisfies(r, build_landing_page_query(campaign, st, existing_ids))
    /\ (pc = "append" /\ existing_ids # {}) =>
          \A i \in 1..Len(data) : data[i].id \notin existing_ids

C4_Witness ==
    /\ pc = "append"
    /\ PathOf(Kinds[ki]) = "ad"
    /\ existing_ids # {}
    /\ Len(data) > 0
    /\ \E r \in SourceSet :
          /\ r.id \in existing_ids
          /\ Satisfies(r, build_landing_page_query(campaign, StatusOf(Kinds[ki]), {}))
          /\ Satisfies(r, build_course_query(campaign, StatusOf(Kinds[ki]), {}))

\* C5: bounded write-verify-retry: a write makes between 1 and 3 attempts; it
\* succeeds at the first attempt that was written and verified, fails when none
\* of the 3 was, and a transport failure moves the loop on like a failed verification
C5_BoundedRetry ==
    /\ pc \in {"write", "reread"} =>
          /\ attempt < Retries
          /\ Len(writeLog) = attempt
          /\ \A i \in 1..Len(writeLog) : writeLog[i] # "verified"
    /\ pc = "written" =>
          /\ Len(writeLog) >= 1
          /\ Len(writeLog) <= Retries
          /\ Len(writeLog) = attempt + 1
          /\ \A i \in 1..(Len(writeLog) - 1) : writeLog[i] # "verified"
          /\ sheets_success <=> (writeLog[Len(writeLog)] = "verified")
          /\ ~sheets_success => Len(writeLog) = Retries

C5_Witness ==
    /\ pc = "written"
    /\ writeLog = <<"transport", "omitted", "verified">>
    /\ sheets_success

\* C6: destination tables are append-only: every step (extraction write,
\* retry, merge) leaves each destination table's rows a prefix of its rows after
C6_AppendOnly == [][\A k \in KindSet : IsPrefix(sheet[k], sheet'[k])]_vars

C6_Witness ==
    /\ Len(sheet["ad_success"]) > 3
    /\ Len(sheet["merge_success"]) > 1
    /\ runs = 2
    /\ pc = "idle"

\* C7: the persisted ledger changes only in the step that follows a write for
\* that kind which was written and verified; when append_to_sheet returns 0
\* (empty batch, retries exhausted, exception) the ledger is as it was before
C7_LedgerOnlyAfterSuccess ==
    /\ [][ledger' # ledger =>
             /\ pc = "written"
             /\ caller = "append"
             /\ target = Kinds[ki]
             /\ sheets_success
             /\ writeLog[Len(writeLog)] = "verified"
             /\ pc' = "appended"]_vars
    /\ []((pc = "appended" /\ updated = 0) => ledger = ledger0)

C7_Witness ==
    /\ pc = "appended"
    /\ ~sheets_success
    /\ Len(writeLog) = Retries
    /\ updated = 0
    /\ ledger.total_processed > 0

\* C8: the backup file is append-only: content mirrored by an earlier append is
\* still in the file after a later one
C8_BackupAppendOnly == [][\A k \in KindSet : IsPrefix(backup[k], backup'[k])]_vars

\* the ledgers that differ from main()'s counters in the count of one kind
LedgerVariants(kind) == {[counters EXCEPT !.count[kind] = n] : n \in 0..(MaxRef + 1)}

\* C9: the count verification passes exactly when the number of resolved keys
\* equals the ledger's count for the kind, and it is advisory: whatever the
\* ledger holds, the step after it builds the predicate from the resolved keys
C9_VerifyAdvisory ==
    /\ pc = "query" =>
          (count_verification_passed <=>
              Cardinality(existing_ids) = counters.count[Kinds[ki]])
    /\ pc = "verify" =>
          \A c \in LedgerVariants(Kinds[ki]) :
              AfterCountVerification(
                  verify_sheet_counts_against_local(existing_ids, c, Kinds[ki])) = "query"
    /\ pc = "extract" =>
          query = IF PathOf(Kinds[ki]) = "course"
                  THEN build_course_query(campaign, StatusOf(Kinds[ki]), existing_ids)
                  ELSE build_landing_page_query(campaign, StatusOf(Kinds[ki]), existing_ids)

C9_Witness ==
    /\ pc = "written"
    /\ caller = "append"
    /\ ~count_verification_passed
    /\ existing_ids # {}
    /\ sheets_success

\* C10: the key resolver makes at most 3 read attempts; when all fail it
\* returns the empty set and the run goes on; when one succeeds it returns the
\* keys of that read and reads no more
C10_ResolveBounded ==
    /\ pc = "resolve" =>
          /\ readAttempt < Retries
          /\ Len(readLog) = readAttempt
          /\ \A i \in 1..Len(readLog) : readLog[i] = "error"
    /\ pc = "verify" =>
          /\ readAttempt >= 1
          /\ readAttempt <= Retries
          /\ Len(readLog) = readAttempt
          /\ \A i \in 1..(Len(readLog) - 1) : readLog[i] = "error"
          /\ readLog[Len(readLog)] = "ok" =>
                existing_ids = ParseExistingIds(sheet[Kinds[ki]])
          /\ readLog[Len(readLog)] = "error" =>
                (readAttempt = Retries /\ existing_ids = {})

C10_Witness ==
    /\ pc = "verify"
    /\ readLog = <<"error", "error", "error">>
    /\ existing_ids = {}
    /\ ParseExistingIds(sheet[Kinds[ki]]) # {}

\* every read attempt of the current key read raised: the resolver's empty
\* result comes from exhausted attempts
ResolveExhausted ==
    /\ Len(readLog) = Retries
    /\ \A i \in 1..Len(readLog) : readLog[i] = "error"

\* the rows a table held before the rows of the current batch were appended
RowsBeforeAppend == SubSeq(sheet[target], 1, Len(sheet[target]) - Len(data))

\* C11: an empty resolver result caused by exhausted read attempts is not
\* treated as "destination is empty": when the resolve failed for a table that
\* holds refs, no row is extracted and appended whose ref the table already held
C11_FailedResolveNotEmpty ==
    (pc = "reread" /\ caller = "append" /\ attempt = 0 /\ ResolveExhausted) =>
        \A i \in 1..Len(data) : data[i].id \notin ParseExistingIds(RowsBeforeAppend)

\* a cell that represents a number: an integer or decimal-looking string,
\* blanks around it allowed
LooksNumeric(cell) ==
    LET t == strip(cell)
    IN  \E k \in 0..Len(t) :
           LET whole == SubSeq(t, 1, k)
               frac == SubSeq(t, k + 1, Len(t))
           IN  /\ \A i \in 1..Len(whole) : whole[i] \in Digits
               /\ \/ Len(frac) = 0
                  \/ /\ Head(frac) = "."
                     /\ \A i \in 2..Len(frac) : frac[i] \in Digits
               /\ Len(whole) > 0 \/ Len(frac) > 1

\* the number a numeric cell represents, truncated to an integer
TruncatedValue(cell) ==
    LET t == strip(cell)
        k == CHOOSE n \in 0..Len(t) :
                /\ \A i \in 1..n : t[i] \in Digits
                /\ n < Len(t) => t[n + 1] \notin Digits
    IN  DecimalValue(SubSeq(t, 1, k))

\* C12: the key resolver returns exactly the truncated values of the non-empty
\* numeric cells of rows 2..n; row 1 never contributes, a column of zero or one
\* row gives the empty set, and a non-numeric cell is skipped
C12_ResolveResult ==
    upc = "returned" =>
        /\ key_ids = {TruncatedValue(read_values[i][1]) :
                        i \in {j \in 2..Len(read_values) :
                                 /\ Len(read_values[j]) > 0
                                 /\ Len(read_values[j][1]) > 0
                                 /\ LooksNumeric(read_values[j][1])}}
        /\ Len(read_values) <= 1 => key_ids = {}

C12_Witness ==
    /\ upc = "returned"
    /\ read_values = << <<<<"1", "2">>>>, <<<<"1", ".", "2", ".", "3">>>>, <<<<"7", ".", "9">>>> >>
    /\ key_ids = {7}

\* C13: ledger monotonicity: across any sequence of runs, also runs in which
\* loading the ledger file fails, no step decreases the persisted count of a kind
C13_LedgerMonotonic == [][\A k \in KindSet : ledger'.count[k] >= ledger.count[k]]_vars

\* every per-kind count and the total are 0
IsZeroed(cnt) ==
    /\ \A k \in KindSet : cnt.count[k] = 0
    /\ cnt.total_processed = 0

\* C14: a ledger load failure is non-fatal: a load of a missing or unreadable
\* file returns counters whose per-kind counts and total are 0, and the run
\* goes on to the first table; a failed load inside append_to_sheet likewise
\* starts from zeroed counters
C14_LoadFailureNonFatal ==
    /\ [](IsZeroed(load_local_counters(ledger, FALSE)))
    /\ [][(pc = "idle" /\ runs' = runs + 1 /\ faults' # faults /\ ~SetupFail) =>
             (IsZeroed(counters') /\ pc' = "resolve")]_vars
    /\ [][(pc = "written" /\ ledger' # ledger /\ faults' # faults) =>
             (/\ pc' = "appended"
              /\ ledger'.count[target] = Len(data)
              /\ ledger'.total_processed = Len(data))]_vars

C14_Witness ==
    /\ pc = "resolve"
    /\ ki = 1
    /\ readLog = <<>>
    /\ runs = 2
    /\ ledger.total_processed > 0
    /\ IsZeroed(counters)

\* C15: an empty batch is a no-op success: append_to_sheet and the write
\* pipeline make no remote write or read, write no backup file, leave the
\* ledger as it is and report no failure
C15_EmptyAppendNoOp ==
    [][(Len(data) = 0 /\ pc \in {"append", "write"}) =>
          /\ sheet' = sheet
          /\ backup' = backup
          /\ ledger' = ledger
          /\ writeLog' = writeLog
          /\ attempt' = attempt
          /\ faults' = faults
          /\ pc = "append" => (pc' = "appended" /\ updated' = 0)
          /\ pc = "write" => (pc' = "written" /\ sheets_success')]_vars

C15_Witness ==
    /\ pc = "written"
    /\ caller = "pipeline"
    /\ Len(data) = 0
    /\ sheets_success
    /\ writeLog = <<>>

\* some identifier of the list occurs in the page: the page is a prefix, the
\* identifier, and a suffix
SomeIdentifierIn(lps, page) ==
    \E i \in 1..Len(lps) : \E m \in 0..Len(page), n \in 0..Len(page) :
        /\ m + Len(lps[i]) + n = Len(page)
        /\ \A j \in 1..Len(lps[i]) : page[m + j] = lps[i][j]

\* C16: the classifier returns exactly one value for every (first_page,
\* last_page, landing_pages) triple: Direct if the pages are equal and
\* first_match; else Indirect if first_match and not last_match; else Direct
\* if last_match; else Other; Error only when the evaluation raises
C16_ClassifierRule ==
    upc = "returned" =>
        LET raises == landing_pages_list = NoneList
            fp == IF first_page = NoneValue THEN <<>> ELSE first_page
            lp == IF last_page = NoneValue THEN <<>> ELSE last_page
            first_match == SomeIdentifierIn(landing_pages_list, fp)
            last_match == SomeIdentifierIn(landing_pages_list, lp)
        IN  /\ reg_type \in {"Direct", "Indirect", "Other", "Error"}
            /\ (reg_type = "Error") <=> raises
            /\ ~raises =>
                 reg_type = IF fp = lp /\ first_match THEN "Direct"
                            ELSE IF first_match /\ ~last_match THEN "Indirect"
                            ELSE IF last_match THEN "Direct"
                            ELSE "Other"

C16_Witness ==
    /\ upc = "returned"
    /\ first_page = <<"a">>
    /\ last_page = <<"a", "b">>
    /\ landing_pages_list = <<<<"b", "a">>, <<"a">>>>
    /\ reg_type = "Direct"

\* the transformation of a row raises: a column it reads is missing
TransformationRaises(row, status_type) ==
    row.lacks \cap (IF status_type = "failed" THEN LackableFields
                    ELSE LackableFields \ {"pg_res_msg"}) # {}

KeysOf(table) == {table[i].id : i \in {j \in 2..Len(table) : HasKey(table[j])}}

\* C18: merge precedence: once a run has ended, every row the merge target
\* holds for a key present in both source tables is the row of source B (the
\* ad sheet), also when the two rows reached their tables in different runs or
\* a source read failed in an earlier merge
C18_MergePrecedence ==
    pc = "idle" =>
        \A i \in 1..Len(MergeTypes) :
            LET merged == sheet[MergeSheet(MergeTypes[i])]
                both == KeysOf(sheet[CourseSheet(MergeTypes[i])])
                          \cap KeysOf(sheet[AdSheet(MergeTypes[i])])
            IN  \A j \in 2..Len(merged) :
                   (HasKey(merged[j]) /\ merged[j].id \in both) => merged[j].src = "ad"

\* every key of the two source sheets of a merge type is in its merge sheet
MergedUpToDate(merge_type) ==
    KeysOf(sheet[CourseSheet(merge_type)]) \cup KeysOf(sheet[AdSheet(merge_type)])
        \subseteq KeysOf(sheet[MergeSheet(merge_type)])

\* C19: merge idempotence: in a second merge on unchanged source sheets, for a
\* merge type whose merge sheet already holds every key of its source sheets,
\* no row is handed to the write (zero rows are appended, nothing is counted)
C19_MergeIdempotence ==
    (/\ runs = 2
     /\ caller = "merge"
     /\ pc \in {"merge_header", "write"}
     /\ writeLog = <<>>
     /\ MergedUpToDate(MergeTypes[mi])) => Len(data) = 0

\* no key occurs in the first column of two data rows
NoDuplicateKeys(table) ==
    \A i, j \in 2..Len(table) :
        (i # j /\ HasKey(table[i]) /\ HasKey(table[j])) => table[i].id # table[j].id

\* C20: after any sequence of merges, also merges in which the read of the
\* merge target fails or a write is retried, no key occurs in more than one
\* data row of a merge target, and no step removes a key from a merge target
C20_MergeTargetSound ==
    /\ [](\A t \in MergeTables : NoDuplicateKeys(sheet[t]))
    /\ [][\A t \in MergeTables : KeysOf(sheet[t]) \subseteq KeysOf(sheet'[t])]_vars

\* the step exhausts the read attempts of the key resolver
ReadExhausts == pc = "resolve" /\ Len(readLog') = Retries /\ readLog'[Retries] = "error"

\* the step exhausts the attempts of a table's write
WriteExhausts ==
    /\ pc \in {"write", "reread"}
    /\ caller = "append"
    /\ Len(writeLog') = Retries
    /\ writeLog'[Retries] # "verified"

KeyReadSucceeded == readLog # <<>> /\ readLog[Len(readLog)] = "ok"

\* the data rows of a table that hold ref id
RowsOfRef(table, id) == {j \in 2..Len(table) : HasKey(table[j]) /\ table[j].id = id}

\* C22: crash safety: in every run whose key read succeeds, in particular a run
\* that follows a killed one, the rows extracted for a table are exactly the
\* matching source records whose refs the table does not hold yet, the write
\* appends exactly these rows, and once it is verified every matching ref is
\* in the table and each appended ref is in one row only
C22_CrashSafety ==
    /\ []((pc = "append" /\ KeyReadSucceeded) =>
             /\ {data[i].id : i \in 1..Len(data)} =
                   MatchingIds(Kinds[ki]) \ KeysOf(sheet[Kinds[ki]])
             /\ Len(data) = Cardinality(MatchingIds(Kinds[ki]) \ KeysOf(sheet[Kinds[ki]])))
    /\ []((pc \in {"written", "appended"} /\ caller = "append" /\ KeyReadSucceeded
               /\ sheets_success) =>
             /\ MatchingIds(target) \subseteq KeysOf(sheet[target])
             /\ \A i \in 1..Len(data) :
                   Cardinality(RowsOfRef(sheet[target], data[i].id)) = 1)
    /\ [][(pc = "write" /\ caller = "append" /\ sheet' # sheet) =>
             sheet' = [sheet EXCEPT ![target] = sheet[target] \o data]]_vars

\* a run after a killed one: the killed run had appended its row to the table
\* and had not updated the ledger; this run appended the newer record only
C22_Witness ==
    /\ pc = "appended"
    /\ exit_code = <<137>>
    /\ target = "ad_success"
    /\ KeyReadSucceeded
    /\ sheets_success
    /\ Len(data) = 1
    /\ KeysOf(sheet[target]) = {1, 2}
    /\ ledger0.count[target] = 0

\* the order of the steps of one table: key read, count check, predicate,
\* extraction and transformation, backup, write, verification, ledger update;
\* a pair <<p, q>> says a step may lead from position p to position q
StepOrder ==
    { <<"resolve", "resolve">>, <<"resolve", "verify">>, <<"verify", "query">>,
      <<"query", "extract">>, <<"extract", "append">>, <<"append", "write">>,
      <<"append", "appended">>, <<"write", "write">>, <<"write", "reread">>,
      <<"write", "written">>, <<"reread", "write">>, <<"reread", "written">>,
      <<"written", "appended">>, <<"appended", "resolve">>, <<"appended", "merge">> }

\* the positions of main() in which a table is being processed
TableSteps == {"resolve", "verify", "query", "extract", "append", "write", "reread",
               "written", "appended"}

\* C23: within a run the steps are strictly ordered: the four tables in the
\* order course-success, ad-success, course-failure, ad-failure; for each table
\* key read, extraction with the predicate built from the keys read, write,
\* verification, ledger update; the merge only after the fourth table
C23_StepOrder ==
    /\ []((pc \in TableSteps /\ caller = "append") =>
             /\ ki \in 1..4
             /\ Kinds[ki] = <<"course_success", "ad_success",
                              "course_failed", "ad_failed">>[ki]
             /\ pc \in {"write", "reread", "written", "appended"} => target = Kinds[ki]
             /\ pc = "extract" =>
                   query = IF ki \in {1, 3}
                           THEN build_course_query(campaign, StatusOf(Kinds[ki]), existing_ids)
                           ELSE build_landing_page_query(campaign, StatusOf(Kinds[ki]),
                                                         existing_ids))
    /\ [][(pc \in TableSteps /\ caller = "append" /\ pc' # pc /\ pc' # "idle") =>
             /\ <<pc, pc'>> \in StepOrder
             /\ ki' = IF pc = "appended" /\ pc' = "resolve" THEN ki + 1
                      ELSE IF pc' = "merge" THEN 1 ELSE ki]_vars
    /\ [][(pc = "idle" /\ pc' # "idle") => (pc' = "resolve" /\ ki' = 1)]_vars
    /\ [][(pc = "extract" /\ pc' = "append" /\ faults' = faults) =>
             data' = process_query_results(SourceSet, query)]_vars
    /\ [][sheet' # sheet => pc \in {"write", "merge_header"}]_vars
    /\ [][ledger' # ledger => (pc = "written" /\ sheets_success)]_vars
    /\ [][(pc' = "merge" /\ pc # "merge") => (pc = "appended" /\ ki = 4)]_vars
    /\ [][(pc' \in {"merge_read", "merge_header"} \/ (pc' = "write" /\ caller' = "merge")) =>
             pc \in {"merge", "merge_read", "merge_header", "write", "reread", "written"}]_vars

\* the merge has begun after the four tables were processed, rows were written
\* to the first two of them
C23_Witness ==
    /\ pc = "merge_read"
    /\ mi = 1
    /\ runs = 1
    /\ Len(sheet["course_success"]) > 1
    /\ Len(sheet["ad_success"]) > 2
    /\ ledger.count["ad_success"] = 2

\* every read an invocation has made was answered: no key read and no re-read
\* of the verification raised or missed a row
ReadsSucceeded(p) ==
    /\ \A i \in 1..Len(procs[p].readLog) : procs[p].readLog[i] = "ok"
    /\ \A i \in 1..Len(procs[p].writeLog) :
          procs[p].writeLog[i] \notin {"reread_error", "omitted"}

\* C24: with the invocations serialized (never two running at a time) and all
\* their reads succeeding, no ref is left in two rows of the table; without
\* serialization a state is reachable in which two invocations read the same
\* existing keys, both appended the same ref and the ref is in two rows
C24_SerializedNoDuplicates ==
    (~overlapped /\ procs # <<>> /\ \A p \in Procs : ReadsSucceeded(p)) =>
        NoDuplicateRefs(sheet[Kinds[1]])

\* two overlapping invocations without any fault: the same snapshot of the
\* keys, the same ref appended by both
C24_Witness ==
    /\ overlapped
    /\ faults = 0
    /\ \A p \in Procs : procs[p].pc = "done" /\ procs[p].sheets_success
    /\ procs[1].existing_ids = procs[2].existing_ids
    /\ \E i \in 1..Len(procs[1].data), j \in 1..Len(procs[2].data) :
          /\ procs[1].data[i].id = procs[2].data[j].id
          /\ Cardinality(RowsOfRef(sheet[Kinds[1]], procs[1].data[i].id)) = 2

\* C25: pinned tie-break: when first_page equals last_page and no landing-page
\* identifier is a substring of that page, the classifier returns Other
C25_EqualNoMatchIsOther ==
    (/\ upc = "returned"
     /\ landing_pages_list # NoneList
     /\ StrOrEmpty(first_page) = StrOrEmpty(last_page)
     /\ ~SomeIdentifierIn(landing_pages_list, StrOrEmpty(first_page))) =>
        reg_type = "Other"

C25_Witness ==
    /\ upc = "returned"
    /\ first_page = <<"b", "b">>
    /\ last_page = <<"b", "b">>
    /\ landing_pages_list = <<<<"a">>, <<"b", "a">>>>
    /\ reg_type = "Other"

\* the identifying columns of an output row
IdentifyingColumns ==
    {"id", "course_id", "course_name", "name", "email", "phone", "submitted_on"}

\* first_page, last_page, the UTM columns and the ad click id are all blank
EnrichmentBlank(r) ==
    /\ r.first_page = <<>>
    /\ r.last_page = <<>>
    /\ r.fbclid = <<>>
    /\ \A k \in UtmKeys : r.utm[k] = <<>>

C27_StatusDerivation ==
    \A i \in 1..Len(formatted) :
        formatted[i].status =
            IF FormatRaises(fetched[i], tr_status) THEN <<"Error">>
            ELSE IF tr_status = "success" THEN <<"Success">>
            ELSE <<"Failed: ">> \o StrOrEmpty(fetched[i].pg_res_msg) \o <<" (">>
                    \o juspay_status(fetched[i].pg_res_code) \o <<")">>

\* C28: merge header ordering: a merge target that holds a data row has the
\* header in its first row, also when a write of the header failed: the header
\* is in place before any row is appended
C28_MergeHeaderFirst ==
    \A t \in MergeTables : Len(sheet[t]) > 1 => sheet[t][1] = HeaderRow

\* C29: ledger update effect: the returned counters have the count of the
\* given kind and the total each increased by the given count, the campaign
\* and environment stamps given, every other count as it was; the counters
\* passed in are not changed by the call
C29_LedgerUpdateEffect ==
    /\ [](upc = "returned" /\ upd_result # <<>> =>
            LET a == upd_args[1]
                r == upd_result[1]
            IN  /\ r.count[a.sheet_type] = a.counters.count[a.sheet_type] + a.new_count
                /\ r.total_processed = a.counters.total_processed + a.new_count
                /\ r.campaign = a.campaign
                /\ r.environment = a.environment
                /\ \A k \in KindSet \ {a.sheet_type} : r.count[k] = a.counters.count[k])
    /\ [][upd_args # <<>> => upd_args' = upd_args]_vars

\* a call that changes a count, the total and both stamps has returned
C29_Witness ==
    /\ upc = "returned"
    /\ upd_result # <<>>
    /\ upd_args[1].new_count = 2
    /\ upd_args[1].counters.count = [k \in KindSet |-> 1]
    /\ upd_args[1].counters.campaign = "whd-mar2025"
    /\ upd_result[1].campaign = "anand-utsav-2025"
    /\ upd_result[1].count["ad_failed"] = 3

\* C30: exclusion sub-predicate: for a campaign with an exclude filter the
\* course query and the landing-page query both hold the filter, so a record
\* the filter excludes satisfies neither query
C30_ExclusionBothPaths ==
    (upc = "returned" /\ flt_queries # <<>> /\ flt_args[1].campaign \in exclude_filters) =>
        \A i \in 1..Len(flt_queries) :
            /\ flt_queries[i].exclude
            /\ flt_args[1].record.voucher => ~Satisfies(flt_args[1].record, flt_queries[i])

\* the attempts count of a cell: the number it shows, 0 for an empty or
\* non-numeric cell
AttemptsCount(cell) == IF IntParses(cell) THEN IntOf(cell) ELSE 0

\* the cell of a mapped column of a data row of the sender's sheet
FbCell(i, key) == fb_sheet[i][COLUMN_MAPS(fb_config.type)[key]]

\* the rows of the sheet that are to be sent: ad-click id present, sent flag
\* not Y in either case, fewer than MAX_ATTEMPTS attempts, and on a sheet with
\* check_converted a converted flag that is one of the given texts
EligibleRows(converted_texts) ==
    {i \in 1..Len(fb_sheet) :
        /\ FbCell(i, "fbclid") # <<>>
        /\ FbCell(i, "fbclid_sent") \notin {<<"Y">>, <<"y">>}
        /\ AttemptsCount(FbCell(i, "attempts")) < MAX_ATTEMPTS
        /\ fb_config.check_converted => FbCell(i, "converted") \in converted_texts}

\* while process_sheet runs, the rows selected are exactly the eligible ones,
\* and only they are sent and given an update
SelectionIs(eligible) ==
    upc \in {"snd_loop", "snd_update"} =>
        /\ {rows_to_process[k].row_index : k \in 1..Len(rows_to_process)}
               = {i + 1 : i \in eligible}
        /\ fb_run.sent \subseteq {i + 1 : i \in eligible}
        /\ \A k \in 1..Len(updates) : updates[k].row_index - 1 \in eligible

\* a step changes no row of the sheet that is not eligible, and changes the
\* sheet only in update_sheet
OnlyChanges(eligible) ==
    /\ \A i \in 1..Len(fb_sheet) : i \notin eligible => fb_sheet'[i] = fb_sheet[i]
    /\ upc # "snd_update" => fb_sheet' = fb_sheet

SentAgain(j) == fb_log'[j].sends > fb_log[j].sends

\* C32: across runs the id of a row is sent at most MAX_ATTEMPTS times in
\* total, and never again after a send of it succeeded, also when the sheet
\* update at the end of a run fails
C32_BoundedSends ==
    /\ [](\A j \in 1..Len(fb_log) : fb_log[j].sends <= MAX_ATTEMPTS)
    /\ [][\A j \in 1..Len(fb_log) : SentAgain(j) => ~fb_log[j].ok]_vars

\* the update of the k-th selected row is the one the row is due: its own
\* attempts plus one, and 'Y' exactly when its send succeeded
OwnUpdate(k) ==
    LET e == rows_to_process[k]
        u == updates[k]
    IN  /\ u.row_index = e.row_index
        /\ u.attempts = AttemptsCount(e.row[COLUMN_MAPS(fb_config.type)["attempts"]]) + 1
        /\ (u.sent_status = <<"Y">>) <=> (e.row_index \in fb_run.ok)

\* C33: every selected row receives exactly one update, with its own previous
\* attempts plus one and with sent 'Y' exactly when its send succeeded, also
\* when its attempts cell is non-numeric or its send raises
C33_OneUpdatePerRow ==
    /\ [](upc = "snd_update" =>
            /\ Len(updates) = Len(rows_to_process)
            /\ \A k \in 1..Len(updates) : OwnUpdate(k))
    /\ [][upc = "snd_loop" => upc' \in {"snd_loop", "snd_update"}]_vars

\* the columns update_sheet is to write: the sent flag, the attempts, and the
\* column after the attempts for the error message
OwnColumns(column_map) ==
    {column_map["fbclid_sent"], column_map["attempts"], column_map["attempts"] + 1}

\* C34: for both sheet types update_sheet writes the sent flag into column
\* column_map['fbclid_sent'] and the attempts into column column_map['attempts'],
\* and writes no other mapped data column
C34_UpdateColumns ==
    /\ [](upc = "snd_update" =>
            LET column_map == COLUMN_MAPS(fb_config.type)
                cells == UpdateCells(column_map, updates)
            IN  \A k \in 1..Len(cells) :
                    /\ cells[k].value \in {<<"Y">>, <<"N">>} =>
                           cells[k].col = <<column_map["fbclid_sent"]>>
                    /\ cells[k].col # <<>>
                    /\ cells[k].col[1] \in OwnColumns(column_map))
    /\ [][\A i \in 1..Len(fb_sheet) : \A c \in DOMAIN fb_sheet[i] :
             fb_sheet'[i][c] # fb_sheet[i][c] =>
                 c \in OwnColumns(COLUMN_MAPS(fb_config.type))]_vars


\* the key set get_existing_sheet_ids returns for the table of kind k
ResolvedKeys(k) == ParseExistingIds(sheet[k])

\* append_to_sheet returns for a kind whose count verification passed at the
\* start of the run, whose ledger count is still the size of the key set
\* resolved then, and whose write succeeded
SuccessfulSegment ==
    /\ pc = "written"
    /\ caller = "append"
    /\ sheets_success
    /\ count_verification_passed
    /\ ledger.count[target] = Cardinality(existing_ids)
    /\ pc' = "appended"

\* C35: ledger/destination agreement is preserved by a successful segment: if
\* at the start of a run the ledger count of a kind equals the size of the
\* resolved key set of the kind's table and the append for the kind succeeds,
\* the ledger count left for the next run equals the size of the key set the
\* next run resolves
C35_AgreementPreserved ==
    [][SuccessfulSegment =>
          ledger'.count[target] = Cardinality(ParseExistingIds(sheet'[target]))]_vars


\* the last counter update loaded and saved the counter file
Completed(log) == log # <<>> /\ log[1].loaded /\ log[1].saved

\* C36: the ledger counts are keyed by kind only: after successful runs of two
\* different campaigns that write n and m rows of the same kind, the one count
\* of the kind is increased by n + m, and only the campaign and environment of
\* the later run are retained
C36_CountsSharedAcrossDomains ==
    [][(/\ Completed(led_log)
        /\ Completed(led_log')
        /\ runs' = runs + 1
        /\ led_log'[1].sheet_type = led_log[1].sheet_type
        /\ led_log'[1].campaign # led_log[1].campaign)
       => /\ DOMAIN ledger'.count = KindSet
          /\ ledger'.count[led_log[1].sheet_type] =
                led_log[1].before.count[led_log[1].sheet_type]
                    + led_log[1].new_count + led_log'[1].new_count
          /\ ledger'.campaign = led_log'[1].campaign
          /\ ledger'.environment = led_log'[1].environment]_vars

\* two campaigns have written 1 and 2 ad-success rows, in different environments
C36_Witness ==
    /\ upc = "led"
    /\ runs = 2
    /\ Completed(led_log)
    /\ led_log[1].sheet_type = "ad_success"
    /\ led_log[1].new_count = 2
    /\ led_log[1].before.campaign \in LedCampaigns \ {led_log[1].campaign}
    /\ led_log[1].before.environment # led_log[1].environment
    /\ led_log[1].before.count["ad_success"] = 1
    /\ ledger.count["ad_success"] = 3
    /\ ledger.campaign = led_log[1].campaign

RECURSIVE SumOver(_, _)
\* the sum of f over the set S
SumOver(f, S) ==
    IF S = {} THEN 0
    ELSE LET x == CHOOSE y \in S : TRUE
         IN  f[x] + SumOver(f, S \ {x})

\* C37: starting from a fresh zeroed ledger, after any sequence of ledger
\* updates total_processed equals the sum of the four per-kind counts
C37_TotalIsSum == ledger.total_processed = SumOver(ledger.count, KindSet)

\* the second update follows a failed load and restarts counts and total from zero
C37_Witness ==
    /\ upc = "led"
    /\ runs = 2
    /\ led_log # <<>>
    /\ ~led_log[1].loaded
    /\ led_log[1].saved
    /\ led_log[1].before.total_processed > 0
    /\ ledger.total_processed = 2


\* C38: the classifier's result depends only on the pair (first_match,
\* last_match): Direct exactly when last_match holds, Indirect exactly when
\* first_match holds and last_match does not, Other exactly when neither
\* holds; whether first_page equals last_page never changes the outcome
C38_MatchPairDecides ==
    (upc = "returned" /\ landing_pages_list # NoneList) =>
        LET first_match == SomeIdentifierIn(landing_pages_list, StrOrEmpty(first_page))
            last_match == SomeIdentifierIn(landing_pages_list, StrOrEmpty(last_page))
        IN  /\ (reg_type = "Direct") <=> last_match
            /\ (reg_type = "Indirect") <=> (first_match /\ ~last_match)
            /\ (reg_type = "Other") <=> (~first_match /\ ~last_match)

\* different pages that both hold a landing-page identifier
C38_Witness ==
    /\ upc = "returned"
    /\ first_page = <<"a", "b">>
    /\ last_page = <<"b", "a">>
    /\ landing_pages_list = <<<<"a">>>>
    /\ reg_type = "Direct"


\* C39: verification and the key resolver agree on the key set: for every
\* content of the identifier column, the set of ids verification derives from
\* its re-read equals the set the resolver returns for the same column, and a
\* malformed cell never by itself makes verification fail
C39_VerificationAgrees ==
    upc = "verified" =>
        /\ ~ver_outcome[1].raised
        /\ ver_outcome[1].current_ids = key_ids

========================================================================
